---------------------------- MODULE Spec2Model ----------------------------
(***************************************************************************)
(* Model of the Dircon frame codec (scripts/dircon_packet.py), of the      *)
(* Indoor Bike Data decoder it carries, and of the TCP read loop that      *)
(* drives it (scripts/tcp-vjoy.py).                                        *)
(*                                                                         *)
(* Bytes are integers 0..255; a Python bytes object is a sequence of them. *)
(* Python index i is TLA+ index i + 1.                                     *)
(***************************************************************************)
EXTENDS Integers, Sequences, FiniteSets, TLC

VARIABLES
    pc,             \* position of the running script / harness
    pkt,            \* the DirconPacket object after the last call on it
    pre,            \* the DirconPacket object as it was before that call
    sent,           \* the DirconPacket object handed to encode, before the call
    buf,            \* the byte buffer handed to parse (the read loop's buf)
    last,           \* the last_seq_number argument of the last call
    result,         \* what the last parse call returned
    seq,            \* handle_device: the connection's sequence counter
    inbound,        \* the frames the device sends on the connection, in order
    recvd,          \* how many bytes of the inbound stream reader.read has delivered
    handled,        \* how many frames the read loop has parsed successfully
    written,        \* the byte strings handed to writer.write, in order
    dev_index,      \* handle_device: index of the device this handler serves
    global_speeds,  \* tcp-vjoy.py global_speeds, in hundredths of a kph
    updates,        \* number of update_gamepad() calls
    data,           \* the payload handed to decode_indoor_bike_data
    decoded,        \* what decode_indoor_bike_data returned
    base_uuid,      \* the contents of the module-level bytearray BASE_UUID
    tasks           \* the local state of each asyncio task main() created

vars == <<pc, pkt, pre, sent, buf, last, result, seq, inbound, recvd, handled,
          written, dev_index, global_speeds, updates, data, decoded,
          base_uuid, tasks>>

codecVars == <<pkt, pre, sent, buf, last, result>>
loopVars == <<seq, inbound, recvd, handled, written, dev_index, global_speeds, updates>>
decoderVars == <<data, decoded>>
moduleVars == <<base_uuid>>
taskVars == <<tasks>>

-----------------------------------------------------------------------------
(* Constants of dircon_packet.py *)

INDOOR_BIKE_DATA_CHAR_UUID == 10962
BIKE_RESISTANCE_GAIN_CHAR_UUID == 10969

DPKT_MESSAGE_HEADER_LENGTH == 6

DPKT_MSGID_ERROR == 255
DPKT_MSGID_DISCOVER_SERVICES == 1
DPKT_MSGID_DISCOVER_CHARACTERISTICS == 2
DPKT_MSGID_READ_CHARACTERISTIC == 3
DPKT_MSGID_WRITE_CHARACTERISTIC == 4
DPKT_MSGID_ENABLE_CHARACTERISTIC_NOTIFICATIONS == 5
DPKT_MSGID_UNSOLICITED_CHARACTERISTIC_NOTIFICATION == 6

DPKT_RESPCODE_SUCCESS_REQUEST == 0
DPKT_RESPCODE_SERVICE_NOT_FOUND == 3

DPKT_PARSE_ERROR == -20
\* a NeedMoreData code that is also the error code of an empty frame
DPKT_PARSE_WAIT_AsError == DPKT_PARSE_ERROR - 6
DPKT_PARSE_WAIT == -3

DPKT_POS_SH8 == 2
DPKT_POS_SH0 == 3

BASE_UUID == <<0, 0, 24, 38, 0, 0, 16, 0, 128, 0, 0, 128, 95, 155, 52, 251>>

-----------------------------------------------------------------------------
(* Python bytes helpers *)

Min(a, b) == IF a < b THEN a ELSE b

\* s[a:b] for 0 <= a, 0 <= b
Slice(s, a, b) ==
    IF a >= Min(b, Len(s)) THEN <<>> ELSE SubSeq(s, a + 1, Min(b, Len(s)))

\* s[a:]
SliceFrom(s, a) == Slice(s, a, Len(s))

\* s[i]
At(s, i) == s[i + 1]

-----------------------------------------------------------------------------
(* DirconPacket *)

\* DirconPacket.__init__
NewPacket ==
    [MessageVersion |-> 1,
     Identifier |-> DPKT_MSGID_ERROR,
     SequenceNumber |-> 0,
     ResponseCode |-> DPKT_RESPCODE_SUCCESS_REQUEST,
     Length |-> 0,
     uuid |-> 0,
     uuids |-> <<>>,
     additional_data |-> <<>>,
     isRequest |-> FALSE]

\* (block[DPKT_POS_SH8] << 8) | block[DPKT_POS_SH0]
Contract(block) == At(block, DPKT_POS_SH8) * 256 + At(block, DPKT_POS_SH0)

\* block = buf[offset: offset + 16]
BlockAt(b, offset) == Slice(b, offset, offset + 16)

\* (last_seq_number <= 0 or last_seq_number != self.SequenceNumber)
IsRequestRuleNoZero(last_seq_number, sn) == last_seq_number # sn
IsRequestRule(last_seq_number, sn) == last_seq_number <= 0 \/ last_seq_number # sn

\* total_length = DPKT_MESSAGE_HEADER_LENGTH + self.Length
TotalLengthNoHeader(self) == self.Length
TotalLength(self) == DPKT_MESSAGE_HEADER_LENGTH + self.Length

\* self.ResponseCode != DPKT_RESPCODE_SUCCESS_REQUEST
ResponseFailedNever(self) == FALSE
ResponseFailed(self) == self.ResponseCode # DPKT_RESPCODE_SUCCESS_REQUEST

ParseErrorNoLength(self) == [ret |-> DPKT_PARSE_ERROR, obj |-> self]
ParseError(self) == [ret |-> DPKT_PARSE_ERROR - TotalLength(self), obj |-> self]
ConsumedBeyond(self, n) == [ret |-> n + 1, obj |-> self]
Consumed(self, n) == [ret |-> n, obj |-> self]

\* the DPKT_MSGID_DISCOVER_SERVICES branch of parse
parse_DISCOVER_SERVICES_AnyLength(self, b, last_seq_number) ==
    IF self.Length = 0
    THEN Consumed([self EXCEPT !.isRequest =
                      IsRequestRule(last_seq_number, self.SequenceNumber)],
                  DPKT_MESSAGE_HEADER_LENGTH)
    ELSE Consumed([self EXCEPT !.uuids =
                      [k \in 1..(self.Length \div 16) |->
                          Contract(BlockAt(b, DPKT_MESSAGE_HEADER_LENGTH + 16 * (k - 1)))]],
                  TotalLength(self))
parse_DISCOVER_SERVICES(self, b, last_seq_number) ==
    IF self.Length = 0
    THEN Consumed([self EXCEPT !.isRequest =
                      IsRequestRule(last_seq_number, self.SequenceNumber)],
                  DPKT_MESSAGE_HEADER_LENGTH)
    ELSE IF self.Length % 16 = 0
    THEN Consumed([self EXCEPT !.uuids =
                      [k \in 1..(self.Length \div 16) |->
                          Contract(BlockAt(b, DPKT_MESSAGE_HEADER_LENGTH + 16 * (k - 1)))]],
                  TotalLength(self))
    ELSE ParseError(self)

\* the DPKT_MSGID_DISCOVER_CHARACTERISTICS branch of parse
parse_DISCOVER_CHARACTERISTICS_Stride16(self, b, last_seq_number) ==
    IF self.Length >= 16
    THEN LET offset == DPKT_MESSAGE_HEADER_LENGTH
             s1 == [self EXCEPT !.uuid = Contract(BlockAt(b, offset))]
         IN  IF s1.Length = 16
             THEN Consumed([s1 EXCEPT !.isRequest =
                               IsRequestRule(last_seq_number, s1.SequenceNumber)],
                           TotalLength(s1))
             ELSE IF (s1.Length - 16) % 16 = 0
             THEN LET count == (s1.Length - 16) \div 16
                  IN  Consumed([s1 EXCEPT
                          !.uuids = [k \in 1..count |->
                              Contract(BlockAt(b, offset + 16 + 16 * (k - 1)))],
                          !.additional_data = <<>>],
                        TotalLength(s1))
             ELSE ParseError(s1)
    ELSE ParseError(self)
parse_DISCOVER_CHARACTERISTICS(self, b, last_seq_number) ==
    IF self.Length >= 16
    THEN LET offset == DPKT_MESSAGE_HEADER_LENGTH
             s1 == [self EXCEPT !.uuid = Contract(BlockAt(b, offset))]
         IN  IF s1.Length = 16
             THEN Consumed([s1 EXCEPT !.isRequest =
                               IsRequestRule(last_seq_number, s1.SequenceNumber)],
                           TotalLength(s1))
             ELSE IF (s1.Length - 16) % 17 = 0
             THEN LET count == (s1.Length - 16) \div 17
                  IN  Consumed([s1 EXCEPT
                          !.uuids = [k \in 1..count |->
                              Contract(BlockAt(b, offset + 16 + 17 * (k - 1)))],
                          !.additional_data = [k \in 1..count |->
                              At(b, offset + 16 + 17 * (k - 1) + 16)]],
                        TotalLength(s1))
             ELSE ParseError(s1)
    ELSE ParseError(self)

\* the DPKT_MSGID_READ_CHARACTERISTIC branch of parse
parse_READ_CHARACTERISTIC_NoQuirk(self, b, last_seq_number) ==
    IF self.Length >= 16
    THEN LET offset == DPKT_MESSAGE_HEADER_LENGTH
             s1 == [self EXCEPT !.uuid = Contract(BlockAt(b, offset))]
         IN  IF s1.Length = 16
             THEN Consumed([s1 EXCEPT
                       !.isRequest = IsRequestRule(last_seq_number, s1.SequenceNumber),
                       !.additional_data = Slice(b, offset + 16, TotalLength(s1))],
                     TotalLength(s1))
             ELSE Consumed(s1, TotalLength(s1))
    ELSE ParseError(self)
parse_READ_CHARACTERISTIC(self, b, last_seq_number) ==
    IF self.Length >= 16
    THEN LET offset == DPKT_MESSAGE_HEADER_LENGTH
             s1 == [self EXCEPT !.uuid = Contract(BlockAt(b, offset))]
         IN  IF s1.Length = 16
             THEN Consumed([s1 EXCEPT
                       !.isRequest = IsRequestRule(last_seq_number, s1.SequenceNumber),
                       !.additional_data = Slice(b, offset + 4, TotalLength(s1))],
                     TotalLength(s1))
             ELSE Consumed(s1, TotalLength(s1))
    ELSE ParseError(self)

\* the DPKT_MSGID_WRITE_CHARACTERISTIC branch of parse
parse_WRITE_CHARACTERISTIC_Allow16(self, b, last_seq_number) ==
    IF self.Length >= 16
    THEN LET offset == DPKT_MESSAGE_HEADER_LENGTH
         IN  Consumed([self EXCEPT
                 !.uuid = Contract(BlockAt(b, offset)),
                 !.additional_data = Slice(b, offset + 16, TotalLength(self)),
                 !.isRequest = IsRequestRule(last_seq_number, self.SequenceNumber)],
               TotalLength(self))
    ELSE ParseError(self)

parse_WRITE_CHARACTERISTIC(self, b, last_seq_number) ==
    IF self.Length > 16
    THEN LET offset == DPKT_MESSAGE_HEADER_LENGTH
         IN  Consumed([self EXCEPT
                 !.uuid = Contract(BlockAt(b, offset)),
                 !.additional_data = Slice(b, offset + 16, TotalLength(self)),
                 !.isRequest = IsRequestRule(last_seq_number, self.SequenceNumber)],
               TotalLength(self))
    ELSE ParseError(self)

\* the DPKT_MSGID_ENABLE_CHARACTERISTIC_NOTIFICATIONS branch of parse
parse_ENABLE_CHARACTERISTIC_NOTIFICATIONS_ByRule(self, b, last_seq_number) ==
    IF self.Length \in {16, 17}
    THEN LET offset == DPKT_MESSAGE_HEADER_LENGTH
             s1 == [self EXCEPT !.uuid = Contract(BlockAt(b, offset))]
         IN  IF s1.Length = 17
             THEN Consumed([s1 EXCEPT
                       !.isRequest = IsRequestRule(last_seq_number, s1.SequenceNumber),
                       !.additional_data = Slice(b, offset + 16, offset + 17)],
                     TotalLength(s1))
             ELSE Consumed(s1, TotalLength(s1))
    ELSE ParseError(self)

parse_ENABLE_CHARACTERISTIC_NOTIFICATIONS(self, b, last_seq_number) ==
    IF self.Length \in {16, 17}
    THEN LET offset == DPKT_MESSAGE_HEADER_LENGTH
             s1 == [self EXCEPT !.uuid = Contract(BlockAt(b, offset))]
         IN  IF s1.Length = 17
             THEN Consumed([s1 EXCEPT
                       !.isRequest = TRUE,
                       !.additional_data = Slice(b, offset + 16, offset + 17)],
                     TotalLength(s1))
             ELSE Consumed(s1, TotalLength(s1))
    ELSE ParseError(self)

\* the DPKT_MSGID_UNSOLICITED_CHARACTERISTIC_NOTIFICATION branch of parse
parse_UNSOLICITED_CHARACTERISTIC_NOTIFICATION_ByRule(self, b, last_seq_number) ==
    IF self.Length > 16
    THEN LET offset == DPKT_MESSAGE_HEADER_LENGTH
         IN  Consumed([self EXCEPT
                 !.uuid = Contract(BlockAt(b, offset)),
                 !.additional_data = Slice(b, offset + 16, TotalLength(self)),
                 !.isRequest = IsRequestRule(last_seq_number, self.SequenceNumber)],
               TotalLength(self))
    ELSE ParseError(self)

parse_UNSOLICITED_CHARACTERISTIC_NOTIFICATION(self, b, last_seq_number) ==
    IF self.Length > 16
    THEN LET offset == DPKT_MESSAGE_HEADER_LENGTH
         IN  Consumed([self EXCEPT
                 !.uuid = Contract(BlockAt(b, offset)),
                 !.additional_data = Slice(b, offset + 16, TotalLength(self))],
               TotalLength(self))
    ELSE ParseError(self)

\* the final else branch of parse: no identifier matched
parse_UNKNOWN_Accepted(self, b, last_seq_number) == Consumed(self, TotalLength(self))
parse_UNKNOWN(self, b, last_seq_number) == ParseError(self)

\* DirconPacket.parse: [ret |-> the int returned, obj |-> self after the call]
parse(self, b, last_seq_number) ==
    IF Len(b) < DPKT_MESSAGE_HEADER_LENGTH
    THEN [ret |-> DPKT_PARSE_WAIT, obj |-> self]
    ELSE LET hdr == [self EXCEPT
                 !.MessageVersion = At(b, 0),
                 !.Identifier = At(b, 1),
                 !.SequenceNumber = At(b, 2),
                 !.ResponseCode = At(b, 3),
                 !.Length = At(b, 4) * 256 + At(b, 5),
                 !.isRequest = FALSE]
         IN  IF Len(b) < TotalLength(hdr)
             THEN [ret |-> DPKT_PARSE_WAIT, obj |-> hdr]
             ELSE IF ResponseFailed(hdr)
             THEN Consumed(hdr, TotalLength(hdr))
             ELSE CASE hdr.Identifier = DPKT_MSGID_DISCOVER_SERVICES ->
                         parse_DISCOVER_SERVICES(hdr, b, last_seq_number)
                    [] hdr.Identifier = DPKT_MSGID_DISCOVER_CHARACTERISTICS ->
                         parse_DISCOVER_CHARACTERISTICS(hdr, b, last_seq_number)
                    [] hdr.Identifier = DPKT_MSGID_READ_CHARACTERISTIC ->
                         parse_READ_CHARACTERISTIC(hdr, b, last_seq_number)
                    [] hdr.Identifier = DPKT_MSGID_WRITE_CHARACTERISTIC ->
                         parse_WRITE_CHARACTERISTIC(hdr, b, last_seq_number)
                    [] hdr.Identifier = DPKT_MSGID_ENABLE_CHARACTERISTIC_NOTIFICATIONS ->
                         parse_ENABLE_CHARACTERISTIC_NOTIFICATIONS(hdr, b, last_seq_number)
                    [] hdr.Identifier = DPKT_MSGID_UNSOLICITED_CHARACTERISTIC_NOTIFICATION ->
                         parse_UNSOLICITED_CHARACTERISTIC_NOTIFICATION(hdr, b, last_seq_number)
                    [] OTHER -> parse_UNKNOWN(hdr, b, last_seq_number)

\* block = bytearray(BASE_UUID); block[DPKT_POS_SH8] = (u >> 8) & 0xFF;
\* block[DPKT_POS_SH0] = u & 0xFF.  block is a new object: the two
\* assignments do not reach BASE_UUID.
UuidBlockSwapped(u) ==
    [i \in 1..16 |->
        IF i = DPKT_POS_SH8 + 1 THEN u % 256
        ELSE IF i = DPKT_POS_SH0 + 1 THEN (u \div 256) % 256
        ELSE BASE_UUID[i]]

UuidBlock(u) ==
    [i \in 1..16 |->
        IF i = DPKT_POS_SH8 + 1 THEN (u \div 256) % 256
        ELSE IF i = DPKT_POS_SH0 + 1 THEN u % 256
        ELSE BASE_UUID[i]]

\* for u in self.uuids: payload.extend(block)
RECURSIVE ServiceBlocks(_)
ServiceBlocks(us) ==
    IF us = <<>> THEN <<>>
    ELSE UuidBlock(Head(us)) \o ServiceBlocks(Tail(us))

\* for i, u in enumerate(self.uuids): the block, then additional_data[i] or 0
RECURSIVE CharacteristicGroups(_, _, _)
CharacteristicGroups(us, additional_data, i) ==
    IF i >= Len(us) THEN <<>>
    ELSE UuidBlock(At(us, i))
            \o <<IF i < Len(additional_data) THEN At(additional_data, i) ELSE 0>>
            \o CharacteristicGroups(us, additional_data, i + 1)

\* the payload-building part of encode: [Length, payload]
encode_payload_PriorLength(self) ==
    [Length |-> self.Length, payload |-> UuidBlock(self.uuid) \o self.additional_data]

encode_payload(self) ==
    IF (~self.isRequest) /\ self.ResponseCode # DPKT_RESPCODE_SUCCESS_REQUEST
    THEN [Length |-> 0, payload |-> <<>>]
    ELSE IF self.Identifier = DPKT_MSGID_DISCOVER_SERVICES
    THEN IF self.isRequest
         THEN [Length |-> 0, payload |-> <<>>]
         ELSE [Length |-> Len(self.uuids) * 16, payload |-> ServiceBlocks(self.uuids)]
    ELSE IF self.Identifier = DPKT_MSGID_DISCOVER_CHARACTERISTICS /\ ~self.isRequest
    THEN [Length |-> 16 + Len(self.uuids) * 17,
          payload |-> UuidBlock(self.uuid)
                        \o CharacteristicGroups(self.uuids, self.additional_data, 0)]
    ELSE IF \/ /\ self.Identifier \in {DPKT_MSGID_READ_CHARACTERISTIC,
                                       DPKT_MSGID_DISCOVER_CHARACTERISTICS}
               /\ self.isRequest
            \/ /\ self.Identifier = DPKT_MSGID_ENABLE_CHARACTERISTIC_NOTIFICATIONS
               /\ ~self.isRequest
    THEN [Length |-> 16, payload |-> UuidBlock(self.uuid)]
    ELSE IF \/ self.Identifier \in {DPKT_MSGID_WRITE_CHARACTERISTIC,
                                    DPKT_MSGID_UNSOLICITED_CHARACTERISTIC_NOTIFICATION}
            \/ /\ self.Identifier = DPKT_MSGID_READ_CHARACTERISTIC
               /\ ~self.isRequest
            \/ /\ self.Identifier = DPKT_MSGID_ENABLE_CHARACTERISTIC_NOTIFICATIONS
               /\ self.isRequest
    THEN [Length |-> 16 + Len(self.additional_data),
          payload |-> UuidBlock(self.uuid) \o self.additional_data]
    ELSE [Length |-> 0, payload |-> <<>>]

\* the sequence number encode writes
encode_sequence_EchoNotification(self, last_seq_number) ==
    IF self.isRequest THEN last_seq_number % 256 ELSE last_seq_number

encode_sequence(self, last_seq_number) ==
    IF self.isRequest THEN last_seq_number % 256
    ELSE IF self.Identifier = DPKT_MSGID_UNSOLICITED_CHARACTERISTIC_NOTIFICATION THEN 0
    ELSE last_seq_number

\* if self.Identifier == DPKT_MSGID_ERROR: return b""
encode_ERROR_Stamped(self, last_seq_number) ==
    [out |-> <<>>,
     obj |-> [self EXCEPT !.SequenceNumber = last_seq_number % 256],
     raised |-> FALSE]
encode_ERROR(self, last_seq_number) ==
    [out |-> <<>>, obj |-> self, raised |-> FALSE]

\* bytearray.append(x) raises ValueError unless 0 <= x < 256
IsByte(x) == x \in 0..255

\* DirconPacket.encode: [out |-> the bytes returned, obj |-> self after the
\* call, raised |-> whether the call raised instead of returning]
encode(self, last_seq_number) ==
    IF self.Identifier = DPKT_MSGID_ERROR
    THEN encode_ERROR(self, last_seq_number)
    ELSE LET s1 == [self EXCEPT
                 !.SequenceNumber = encode_sequence(self, last_seq_number),
                 !.MessageVersion = 1]
         IN  IF ~(IsByte(s1.Identifier) /\ IsByte(s1.SequenceNumber)
                    /\ IsByte(s1.ResponseCode))
             THEN [out |-> <<>>, obj |-> s1, raised |-> TRUE]
             ELSE LET p == encode_payload(s1)
                      s2 == [s1 EXCEPT !.Length = p.Length]
                  IN  [out |-> <<s2.MessageVersion, s2.Identifier,
                                 s2.SequenceNumber, s2.ResponseCode,
                                 (s2.Length \div 256) % 256, s2.Length % 256>>
                                    \o p.payload,
                       obj |-> s2,
                       raised |-> FALSE]

-----------------------------------------------------------------------------
(* The Indoor Bike Data decoder *)

\* one entry of FIELD_DEFS: "present" is ((flags >> bit) & 1) == want, the
\* resolution is kept in hundredths (0.01 -> 1, 0.5 -> 50, 1 -> 100) and key
\* is field.get("short", field["name"])
Field(name, size, type, res100, bit, want, key) ==
    [name |-> name, size |-> size, type |-> type, res100 |-> res100,
     bit |-> bit, want |-> want, key |-> key]

FIELD_DEFS ==
    << Field("Flags", 2, "Uint16", 100, 0, 0, "Flags"),
       Field("InstantaneousSpeed", 2, "Uint16", 1, 0, 0, "speed"),
       Field("AverageSpeed", 2, "Uint16", 1, 1, 1, "AverageSpeed"),
       Field("InstantaneousCadence", 2, "Uint16", 50, 2, 1, "cadence"),
       Field("AverageCadence", 2, "Uint16", 50, 3, 1, "AverageCadence"),
       Field("TotalDistance", 3, "Uint24", 100, 4, 1, "distance"),
       Field("ResistanceLevel", 2, "Uint16", 100, 5, 1, "ResistanceLevel"),
       Field("InstantaneousPower", 2, "Uint16", 100, 6, 1, "power"),
       Field("AveragePower", 2, "Uint16", 100, 7, 1, "AveragePower"),
       Field("TotalEnergy", 2, "Int16", 100, 8, 1, "TotalEnergy"),
       Field("EnergyPerHour", 2, "Int16", 100, 9, 1, "EnergyPerHour"),
       Field("EnergyPerMinute", 1, "Uint8", 100, 10, 1, "EnergyPerMinute"),
       Field("HeartRate", 1, "Uint8", 100, 11, 1, "heartRate"),
       Field("MetabolicEquivalent", 1, "Uint8", 100, 12, 1, "MetabolicEquivalent"),
       Field("ElapsedTime", 2, "Uint16", 100, 13, 1, "ElapsedTime"),
       Field("RemainingTime", 2, "Uint16", 100, 14, 1, "RemainingTime") >>

RECURSIVE Pow2(_)
Pow2(n) == IF n = 0 THEN 1 ELSE 2 * Pow2(n - 1)

\* (flags >> k) & 1
Bit(flags, k) == (flags \div Pow2(k)) % 2

\* field["present"](flags)
Present(field, flags) == Bit(flags, field.bit) = field.want

\* struct.unpack_from / the Uint24 arithmetic, at offset
UnpackUnsigned(type, d, offset) ==
    CASE type \in {"Uint16", "Int16"} -> At(d, offset) + 256 * At(d, offset + 1)
      [] type = "Uint8" -> At(d, offset)
      [] type = "Uint24" ->
            At(d, offset) + 256 * At(d, offset + 1) + 65536 * At(d, offset + 2)

Unpack(type, d, offset) ==
    CASE type = "Uint16" -> At(d, offset) + 256 * At(d, offset + 1)
      [] type = "Int16" ->
            LET u == At(d, offset) + 256 * At(d, offset + 1)
            IN  IF u >= 32768 THEN u - 65536 ELSE u
      [] type = "Uint8" -> At(d, offset)
      [] type = "Uint24" ->
            At(d, offset) + 256 * At(d, offset + 1) + 65536 * At(d, offset + 2)

\* result[key] = value
Put(dict, key, value) ==
    [k \in DOMAIN dict \cup {key} |-> IF k = key THEN value ELSE dict[k]]

\* decode_indoor_bike_data returning None
None == [none |-> TRUE]

\* the loop over FIELD_DEFS[1:], from table index i (from 1) on
RECURSIVE decode_fields(_, _, _, _, _)
decode_fields(d, flags, i, offset, dict) ==
    IF i > Len(FIELD_DEFS) THEN dict
    ELSE LET field == FIELD_DEFS[i]
         IN  IF offset + field.size > Len(d) THEN dict
             ELSE decode_fields(d, flags, i + 1, offset + field.size,
                     IF Present(field, flags)
                     THEN Put(dict, field.key,
                              Unpack(field.type, d, offset) * field.res100)
                     ELSE dict)

\* DirconPacket.decode_indoor_bike_data; values in hundredths, Flags as read
decode_indoor_bike_data_NoLengthCheck(d) ==
    LET flags == IF Len(d) >= 2 THEN Unpack("Uint16", d, 0) ELSE 0
    IN  decode_fields(d, flags, 2, 2, [k \in {"Flags"} |-> flags])

decode_indoor_bike_data(d) ==
    IF Len(d) < 2 THEN None
    ELSE LET flags == Unpack("Uint16", d, 0)
         IN  decode_fields(d, flags, 2, 2, [k \in {"Flags"} |-> flags])

-----------------------------------------------------------------------------
(* Values of the variables a specification does not use *)

IdleLoop ==
    /\ seq = 0
    /\ inbound = <<>>
    /\ recvd = 0
    /\ handled = 0
    /\ written = <<>>
    /\ dev_index = 0
    /\ global_speeds = [i \in 0..3 |-> 0]
    /\ updates = 0

IdleDecoder ==
    /\ data = <<>>
    /\ decoded = None

\* the module as imported: BASE_UUID as assigned at dircon_packet.py:44
IdleModule == base_uuid = BASE_UUID

\* no task has been created
IdleTasks == tasks = <<>>

IdleCodec ==
    /\ pkt = NewPacket
    /\ pre = NewPacket
    /\ sent = NewPacket
    /\ buf = <<>>
    /\ last = 0
    /\ result = 0

-----------------------------------------------------------------------------
(* Inputs of the parse harness: byte buffers holding one frame, possibly   *)
(* cut short or followed by the first bytes of the next frame.             *)

\* how many 16-byte UUID blocks / 17-byte groups the generated bodies hold
MaxBlocks == 2

MaxBodyLen == 16 + 17 * MaxBlocks + 1

\* short codes used in generated bodies: 0x1826, 0x1818, 0x2AD2, 0x2AD9
Codes == <<6182, 6168, 10962, 10969>>
Props == <<20, 10, 4, 1>>
Values == <<68, 2, 210, 4, 90, 0, 17>>

Pick(s, k) == s[(k % Len(s)) + 1]

\* byte i (from 1) of a body of the given layout
BodyByte(layout, i) ==
    CASE layout = "blocks" ->
            UuidBlock(Pick(Codes, (i - 1) \div 16))[((i - 1) % 16) + 1]
      [] layout = "groups" ->
            IF i <= 16 THEN UuidBlock(Codes[1])[i]
            ELSE LET g == (i - 17) \div 17
                     o == (i - 17) % 17
                 IN  IF o < 16 THEN UuidBlock(Pick(Codes, g + 2))[o + 1]
                     ELSE Pick(Props, g)
      [] layout = "value" ->
            IF i <= 16 THEN UuidBlock(Codes[3])[i]
            ELSE Pick(Values, i - 17)

Layouts == {"blocks", "groups", "value"}

Body(layout, n) == [i \in 1..n |-> BodyByte(layout, i)]

Header(id, sn, rc, len) == <<1, id, sn, rc, len \div 256, len % 256>>

Wire(id, sn, rc, len, layout) == Header(id, sn, rc, len) \o Body(layout, len)

\* declared lengths around the boundaries the parser tests
LenSet ==
    {4} \cup
    {l \in 0..MaxBodyLen :
        \E k \in 0..MaxBlocks, d \in {-1, 0, 1} :
            l = 16 * k + d \/ l = 16 + 17 * k + d}

IdSet == {DPKT_MSGID_DISCOVER_SERVICES, DPKT_MSGID_DISCOVER_CHARACTERISTICS,
          DPKT_MSGID_READ_CHARACTERISTIC, DPKT_MSGID_WRITE_CHARACTERISTIC,
          DPKT_MSGID_ENABLE_CHARACTERISTIC_NOTIFICATIONS,
          DPKT_MSGID_UNSOLICITED_CHARACTERISTIC_NOTIFICATION,
          7, DPKT_MSGID_ERROR}

SeqNumSet == {0, 5}
LastSet == {-1, 0, 5, 6}
RespSet == {DPKT_RESPCODE_SUCCESS_REQUEST, DPKT_RESPCODE_SERVICE_NOT_FOUND}

\* a buffer holding the frame w: one byte short, exact, or with trailing bytes
Cuts(w) == {SubSeq(w, 1, Len(w) - 1), w, w \o <<1, 6>>}

WireInputs ==
    UNION {Cuts(Wire(id, sn, rc, len, layout)) :
              id \in IdSet, sn \in SeqNumSet, rc \in RespSet,
              len \in LenSet, layout \in Layouts}

\* a packet object that was used before
UsedPacket ==
    [NewPacket EXCEPT !.uuid = 4660, !.uuids = <<6154>>,
                      !.additional_data = <<9>>, !.isRequest = TRUE]

-----------------------------------------------------------------------------
(* SpecParse: parse applied once to each input *)

InitParse ==
    /\ pc = "wire"
    /\ buf \in WireInputs
    /\ last \in LastSet
    /\ pkt \in {NewPacket, UsedPacket}
    /\ pre = pkt
    /\ sent = NewPacket
    /\ result = 0
    /\ IdleLoop
    /\ IdleDecoder
    /\ IdleModule
    /\ IdleTasks

ParseCall ==
    /\ pc = "wire"
    /\ LET r == parse(pkt, buf, last)
       IN  /\ pkt' = r.obj
           /\ result' = r.ret
    /\ pre' = pkt
    /\ pc' = "parsed"
    /\ UNCHANGED <<sent, buf, last>>
    /\ UNCHANGED loopVars
    /\ UNCHANGED decoderVars
    /\ UNCHANGED moduleVars
    /\ UNCHANGED taskVars

NextParse == ParseCall

SpecParse == InitParse /\ [][NextParse]_vars

-----------------------------------------------------------------------------
(* What a buffer says on the wire, read off its bytes *)

FrameId(b) == b[2]
FrameSeq(b) == b[3]
FrameResp(b) == b[4]
FrameLen(b) == b[5] * 256 + b[6]
FrameComplete(b) == Len(b) >= 6 /\ Len(b) >= 6 + FrameLen(b)
FrameCode(b, offset) == b[offset + 3] * 256 + b[offset + 4]
FrameSuccess(b) == FrameComplete(b) /\ FrameResp(b) = 0

IsParseError(r) == r < 0 /\ r # DPKT_PARSE_WAIT

SequenceComparison(b) == last <= 0 \/ last # FrameSeq(b)

Parsed == pc = "parsed"

-----------------------------------------------------------------------------
(* Claims about parse, checked under SpecParse *)

\* the frames whose isRequest parse derives from the sequence comparison
RuleApplies(b) ==
    /\ FrameSuccess(b)
    /\ \/ FrameId(b) = DPKT_MSGID_DISCOVER_SERVICES /\ FrameLen(b) = 0
       \/ FrameId(b) = DPKT_MSGID_DISCOVER_CHARACTERISTICS /\ FrameLen(b) = 16
       \/ FrameId(b) = DPKT_MSGID_READ_CHARACTERISTIC /\ FrameLen(b) = 16
       \/ FrameId(b) = DPKT_MSGID_WRITE_CHARACTERISTIC

\* C4 as stated: for every successfully parsed frame isRequest is the
\* sequence comparison (false when the frame's sequence number equals a
\* positive lastSequenceNumber, true when it differs or lastSequenceNumber <= 0).
C4_Original ==
    (Parsed /\ result > 0) => (pkt.isRequest <=> SequenceComparison(buf))

\* C4 amended: isRequest is the sequence comparison for every successfully
\* parsed success-code frame that is a DiscoverServices frame of length 0, a
\* DiscoverCharacteristics or ReadCharacteristic frame of length 16, or a
\* WriteCharacteristic frame; it is true for an EnableNotifications frame
\* of length 17 whatever the sequence numbers, and false for every other
\* successfully parsed frame.
C4_SequenceCorrelation ==
    (Parsed /\ result > 0) =>
        pkt.isRequest =
            IF RuleApplies(buf) THEN SequenceComparison(buf)
            ELSE /\ FrameSuccess(buf)
                 /\ FrameId(buf) = DPKT_MSGID_ENABLE_CHARACTERISTIC_NOTIFICATIONS
                 /\ FrameLen(buf) = 17

C4_Witness ==
    /\ Parsed /\ result > 0 /\ RuleApplies(buf)
    /\ last = 0 /\ FrameSeq(buf) = 0 /\ pkt.isRequest

\* C6: a complete frame whose responseCode is not success is accepted
\* whatever its identifier and declared length: parse returns 6 + declared
\* length, isRequest is false and uuid, uuids and payload keep the values the
\* object had before the call.
C6_ErrorResponse ==
    (Parsed /\ FrameComplete(buf) /\ FrameResp(buf) # 0) =>
        /\ result = 6 + FrameLen(buf)
        /\ pkt.isRequest = FALSE
        /\ pkt.uuid = pre.uuid
        /\ pkt.uuids = pre.uuids
        /\ pkt.additional_data = pre.additional_data

C6_Witness ==
    /\ Parsed /\ FrameComplete(buf) /\ FrameResp(buf) = 3
    /\ FrameId(buf) = DPKT_MSGID_DISCOVER_SERVICES /\ FrameLen(buf) = 17
    /\ pre = UsedPacket /\ pkt.uuids = <<6154>> /\ result = 23

\* the buffer of the DiscoverServices scenario: two blocks, 0x1826 and 0x1818
TwoServices(sn) ==
    Header(DPKT_MSGID_DISCOVER_SERVICES, sn, 0, 32)
        \o UuidBlock(6182) \o UuidBlock(6168)

\* C7: DiscoverServices with a success response code: length 0 is
\* request-shaped (isRequest is the sequence comparison, 6 bytes consumed); a
\* non-zero multiple of 16 gives uuids = the short codes at offsets 2 and 3 of
\* each 16-byte block, in order, and consumes 6 + length (0x1826 and 0x1818
\* give uuids = [0x1826, 0x1818] and 38); any other length is a parse error.
C7_DiscoverServices ==
    (Parsed /\ FrameSuccess(buf) /\ FrameId(buf) = DPKT_MSGID_DISCOVER_SERVICES) =>
        /\ FrameLen(buf) = 0 =>
              /\ result = 6
              /\ pkt.isRequest = SequenceComparison(buf)
              /\ pkt.uuids = pre.uuids
        /\ (FrameLen(buf) # 0 /\ FrameLen(buf) % 16 = 0) =>
              /\ result = 6 + FrameLen(buf)
              /\ pkt.uuids = [k \in 1..(FrameLen(buf) \div 16) |->
                                 FrameCode(buf, 6 + 16 * (k - 1))]
        /\ FrameLen(buf) % 16 # 0 => IsParseError(result)
        /\ (\E sn \in SeqNumSet : buf = TwoServices(sn)) =>
              pkt.uuids = <<6182, 6168>> /\ result = 38

C7_Witness ==
    /\ Parsed /\ buf = TwoServices(5)
    /\ pkt.uuids = <<6182, 6168>> /\ result = 38

\* C8: DiscoverCharacteristics with a success response code: a length below
\* 16 is a parse error; the first 16 bytes give the service short UUID;
\* length 16 is the request shape; otherwise length - 16 must be a multiple
\* of 17 and every 17-byte group gives one short code to uuids and its
\* trailing byte to payload, so len(uuids) = len(payload) = (length - 16) / 17;
\* any other length is a parse error.
C8_DiscoverCharacteristics ==
    (Parsed /\ FrameSuccess(buf)
        /\ FrameId(buf) = DPKT_MSGID_DISCOVER_CHARACTERISTICS) =>
        LET n == FrameLen(buf)
        IN  /\ n < 16 => IsParseError(result)
            /\ (n >= 16 /\ (n - 16) % 17 # 0) => IsParseError(result)
            /\ (n >= 16 /\ (n - 16) % 17 = 0) =>
                  /\ result = 6 + n
                  /\ pkt.uuid = FrameCode(buf, 6)
            /\ n = 16 =>
                  /\ pkt.isRequest = SequenceComparison(buf)
                  /\ pkt.uuids = pre.uuids
                  /\ pkt.additional_data = pre.additional_data
            /\ (n > 16 /\ (n - 16) % 17 = 0) =>
                  /\ Len(pkt.uuids) = (n - 16) \div 17
                  /\ Len(pkt.additional_data) = (n - 16) \div 17
                  /\ \A k \in 1..((n - 16) \div 17) :
                        /\ pkt.uuids[k] = FrameCode(buf, 22 + 17 * (k - 1))
                        /\ pkt.additional_data[k] = buf[22 + 17 * (k - 1) + 17]

C8_Witness ==
    /\ Parsed /\ FrameSuccess(buf)
    /\ FrameId(buf) = DPKT_MSGID_DISCOVER_CHARACTERISTICS /\ FrameLen(buf) = 50
    /\ pkt.uuid = 6182
    /\ pkt.uuids = <<10962, 10969>> /\ pkt.additional_data = <<20, 10>>
    /\ result = 56

\* C9: parsing a successful ReadCharacteristic response (declared length
\* greater than 16) yields as payload the length - 16 bytes that follow the
\* 16-byte UUID block.
C9_ReadResponsePayload ==
    (Parsed /\ FrameSuccess(buf)
        /\ FrameId(buf) = DPKT_MSGID_READ_CHARACTERISTIC /\ FrameLen(buf) > 16) =>
        pkt.additional_data = SubSeq(buf, 23, 6 + FrameLen(buf))

C11_Original ==
    (Parsed /\ FrameSuccess(buf) /\ FrameId(buf) = DPKT_MSGID_WRITE_CHARACTERISTIC) =>
        /\ FrameLen(buf) <= 16 => IsParseError(result)
        /\ FrameLen(buf) > 16 =>
              /\ result = 6 + FrameLen(buf)
              /\ pkt.uuid = FrameCode(buf, 6)
              /\ pkt.additional_data = SubSeq(buf, 23, 6 + FrameLen(buf))
              /\ pkt.isRequest = TRUE

\* C11 amended: as stated, except that isRequest is the sequence comparison:
\* false when the frame's sequence number equals a positive
\* lastSequenceNumber, true otherwise.
C11_WriteCharacteristic ==
    (Parsed /\ FrameSuccess(buf) /\ FrameId(buf) = DPKT_MSGID_WRITE_CHARACTERISTIC) =>
        /\ FrameLen(buf) <= 16 => IsParseError(result)
        /\ FrameLen(buf) > 16 =>
              /\ result = 6 + FrameLen(buf)
              /\ pkt.uuid = FrameCode(buf, 6)
              /\ pkt.additional_data = SubSeq(buf, 23, 6 + FrameLen(buf))
              /\ pkt.isRequest = SequenceComparison(buf)

C11_Witness ==
    /\ Parsed /\ FrameSuccess(buf)
    /\ FrameId(buf) = DPKT_MSGID_WRITE_CHARACTERISTIC /\ FrameLen(buf) = 17
    /\ last = 5 /\ FrameSeq(buf) = 5
    /\ result = 23 /\ pkt.uuid = FrameCode(buf, 6)
    /\ Len(pkt.additional_data) = 1
    /\ ~pkt.isRequest

\* C12: a success-code EnableNotifications frame whose length is neither 16
\* nor 17 is a parse error; otherwise the first 16 bytes give uuid; length 17
\* makes the frame a request carrying exactly the one byte after the UUID
\* block; length 16 leaves isRequest false and reads no payload (the
\* object's payload is what it was before the call).
C12_EnableNotifications ==
    (Parsed /\ FrameSuccess(buf)
       /\ FrameId(buf) = DPKT_MSGID_ENABLE_CHARACTERISTIC_NOTIFICATIONS) =>
        /\ FrameLen(buf) \notin {16, 17} => IsParseError(result)
        /\ FrameLen(buf) \in {16, 17} =>
              result = 6 + FrameLen(buf) /\ pkt.uuid = FrameCode(buf, 6)
        /\ FrameLen(buf) = 17 =>
              pkt.isRequest /\ pkt.additional_data = <<buf[23]>>
        /\ FrameLen(buf) = 16 =>
              ~pkt.isRequest /\ pkt.additional_data = pre.additional_data

C12_Witness ==
    /\ Parsed /\ FrameSuccess(buf)
    /\ FrameId(buf) = DPKT_MSGID_ENABLE_CHARACTERISTIC_NOTIFICATIONS
    /\ FrameLen(buf) = 17 /\ Len(buf) > 23
    /\ last = 5 /\ FrameSeq(buf) = 5
    /\ result = 23 /\ pkt.isRequest /\ Len(pkt.additional_data) = 1

\* C13: a success-code UnsolicitedNotification frame of length <= 16 is a
\* parse error; otherwise the first 16 bytes give uuid, the remaining bytes
\* are the payload, and isRequest is false for every lastSequenceNumber and
\* every inbound sequence number.
C13_UnsolicitedNotification ==
    (Parsed /\ FrameSuccess(buf)
       /\ FrameId(buf) = DPKT_MSGID_UNSOLICITED_CHARACTERISTIC_NOTIFICATION) =>
        /\ FrameLen(buf) <= 16 => IsParseError(result)
        /\ FrameLen(buf) > 16 =>
              /\ result = 6 + FrameLen(buf)
              /\ pkt.uuid = FrameCode(buf, 6)
              /\ pkt.additional_data = SubSeq(buf, 23, 6 + FrameLen(buf))
              /\ ~pkt.isRequest

C13_Witness ==
    /\ Parsed /\ FrameSuccess(buf)
    /\ FrameId(buf) = DPKT_MSGID_UNSOLICITED_CHARACTERISTIC_NOTIFICATION
    /\ FrameLen(buf) > 17
    /\ last = -1 /\ pre.isRequest
    /\ result = 6 + FrameLen(buf)
    /\ Len(pkt.additional_data) = FrameLen(buf) - 16
    /\ ~pkt.isRequest

KnownIdentifiers ==
    {DPKT_MSGID_DISCOVER_SERVICES, DPKT_MSGID_DISCOVER_CHARACTERISTICS,
     DPKT_MSGID_READ_CHARACTERISTIC, DPKT_MSGID_WRITE_CHARACTERISTIC,
     DPKT_MSGID_ENABLE_CHARACTERISTIC_NOTIFICATIONS,
     DPKT_MSGID_UNSOLICITED_CHARACTERISTIC_NOTIFICATION}

\* C14: a complete success-code frame whose identifier is none of the six
\* recognised ones (Error, 255, included) is a parse error.
C14_UnknownIdentifier ==
    (Parsed /\ FrameSuccess(buf) /\ FrameId(buf) \notin KnownIdentifiers) =>
        IsParseError(result)

C14_Witness ==
    /\ Parsed /\ FrameSuccess(buf)
    /\ FrameId(buf) = DPKT_MSGID_ERROR /\ FrameLen(buf) = 16
    /\ result = -42

\* C15: a negative result is either NeedMoreData (-3), returned only for an
\* incomplete frame, or a parse error, returned only for a complete frame;
\* a parse error is never -3, -(result) - 20 is the frame's total length
\* (6 + declared length), and that length never exceeds the buffer's length.
C15_ParseErrorEncoding ==
    (Parsed /\ result < 0) =>
        IF FrameComplete(buf)
        THEN /\ result # DPKT_PARSE_WAIT
             /\ (-result) - 20 = 6 + FrameLen(buf)
             /\ (-result) - 20 <= Len(buf)
        ELSE result = DPKT_PARSE_WAIT

C15_Witness ==
    /\ Parsed /\ IsParseError(result)
    /\ FrameLen(buf) = 4
    /\ (-result) - 20 = 10
    /\ Len(buf) > 10

-----------------------------------------------------------------------------
(* SpecRound: encode applied to a frame object, parse applied to the bytes *)

\* how many short codes a frame object's uuids holds at most
MaxUuids == 2
\* how many payload bytes a frame object holds at most
MaxData == 2

RECURSIVE SeqsUpTo(_, _)
SeqsUpTo(S, n) ==
    IF n = 0 THEN {<<>>}
    ELSE LET shorter == SeqsUpTo(S, n - 1)
         IN  shorter \cup {Append(q, x) : q \in shorter, x \in S}

FrameObjects ==
    {[NewPacket EXCEPT !.Identifier = id, !.isRequest = rq, !.ResponseCode = rc,
                       !.uuid = u, !.uuids = us, !.additional_data = d,
                       !.Length = l] :
        id \in IdSet \ {7}, rq \in BOOLEAN, rc \in RespSet,
        u \in {0, INDOOR_BIKE_DATA_CHAR_UUID},
        us \in SeqsUpTo({6182, BIKE_RESISTANCE_GAIN_CHAR_UUID}, MaxUuids),
        d \in {SubSeq(Values, 1, n) : n \in 0..MaxData},
        l \in {0, 99}}

RoundLastSet == {-1, 0, 5, 255, 256, 261}

\* the two length bytes encode appends, (Length >> 8) & 0xFF and
\* Length & 0xFF, hold Length modulo 2^16
LengthFieldModulus == 65536

\* a notification whose UUID block and payload make up 2^16 bytes
HugeFrame ==
    [NewPacket EXCEPT
        !.Identifier = DPKT_MSGID_UNSOLICITED_CHARACTERISTIC_NOTIFICATION,
        !.uuid = INDOOR_BIKE_DATA_CHAR_UUID,
        !.additional_data = [i \in 1..(LengthFieldModulus - 16) |-> 0],
        !.Length = 99]

InitRound ==
    /\ pc = "obj"
    /\ pkt \in FrameObjects \cup {HugeFrame}
    /\ last \in RoundLastSet
    /\ pre = pkt
    /\ sent = pkt
    /\ buf = <<>>
    /\ result = 0
    /\ IdleLoop
    /\ IdleDecoder
    /\ IdleModule
    /\ IdleTasks

EncodeCall ==
    /\ pc = "obj"
    /\ LET r == encode(pkt, last)
       IN  /\ pkt' = r.obj
           /\ buf' = r.out
           /\ pc' = IF r.raised THEN "raised" ELSE "encoded"
    /\ pre' = pkt
    /\ UNCHANGED <<sent, last, result>>
    /\ UNCHANGED loopVars
    /\ UNCHANGED decoderVars
    /\ UNCHANGED moduleVars
    /\ UNCHANGED taskVars

\* the receiver parses what was encoded with a fresh DirconPacket()
ParseBack ==
    /\ pc = "encoded"
    /\ LET r == parse(NewPacket, buf, last)
       IN  /\ pkt' = r.obj
           /\ result' = r.ret
    /\ pre' = NewPacket
    /\ pc' = "roundtrip"
    /\ UNCHANGED <<sent, buf, last>>
    /\ UNCHANGED loopVars
    /\ UNCHANGED decoderVars
    /\ UNCHANGED moduleVars
    /\ UNCHANGED taskVars

NextRound == EncodeCall \/ ParseBack

SpecRound == InitRound /\ [][NextRound]_vars

\* a frame object of success response code that holds exactly the fields
\* the variant (identifier, isRequest) carries on the wire
Canonical(f) ==
    /\ f.ResponseCode = DPKT_RESPCODE_SUCCESS_REQUEST
    /\ CASE f.Identifier = DPKT_MSGID_DISCOVER_SERVICES ->
               /\ f.uuid = 0 /\ f.additional_data = <<>>
               /\ f.isRequest => f.uuids = <<>>
         [] f.Identifier = DPKT_MSGID_DISCOVER_CHARACTERISTICS ->
               IF f.isRequest THEN f.uuids = <<>> /\ f.additional_data = <<>>
               ELSE Len(f.additional_data) = Len(f.uuids)
         [] f.Identifier = DPKT_MSGID_READ_CHARACTERISTIC ->
               /\ f.uuids = <<>>
               /\ IF f.isRequest THEN f.additional_data = <<>>
                  ELSE f.additional_data # <<>>
         [] f.Identifier = DPKT_MSGID_WRITE_CHARACTERISTIC ->
               f.uuids = <<>> /\ f.additional_data # <<>>
         [] f.Identifier = DPKT_MSGID_ENABLE_CHARACTERISTIC_NOTIFICATIONS ->
               /\ f.uuids = <<>>
               /\ IF f.isRequest THEN Len(f.additional_data) = 1
                  ELSE f.additional_data = <<>>
         [] f.Identifier = DPKT_MSGID_UNSOLICITED_CHARACTERISTIC_NOTIFICATION ->
               f.uuids = <<>> /\ f.additional_data # <<>>
         [] OTHER -> FALSE

SameFields(f, g) ==
    /\ f.uuid = g.uuid
    /\ f.uuids = g.uuids
    /\ f.additional_data = g.additional_data

\* C3: round trip: for every identifier and both directions, parsing the
\* bytes encode(f, seq) produced, with the same seq, succeeds, consumes all
\* the bytes and yields the uuid, uuids and payload of f.
C3_RoundTrip ==
    (pc = "roundtrip" /\ Canonical(sent)) =>
        /\ result = Len(buf)
        /\ result > 0
        /\ SameFields(pkt, sent)

\* the round trip does hold for every identifier but ReadCharacteristic
\* when the payload fits the length field
RoundTripExceptRead ==
    (pc = "roundtrip" /\ Canonical(sent)
        /\ sent.Identifier # DPKT_MSGID_READ_CHARACTERISTIC
        /\ Len(buf) - 6 < LengthFieldModulus) =>
        /\ result = Len(buf)
        /\ result > 0
        /\ SameFields(pkt, sent)

\* encode has been called on the frame object sent, whose identifier is
\* not Error, and parse has not yet replaced the object
Encoding == pc \in {"encoded", "raised"} /\ sent.Identifier # DPKT_MSGID_ERROR

\* C17: for every frame whose identifier is not Error, encode assigns the
\* sequence number lastSequenceNumber & 0xFF when the frame is a request,
\* otherwise 0 when it is an UnsolicitedNotification, otherwise
\* lastSequenceNumber unchanged; the third byte of the bytes encode returns
\* is that value.
C17_EncodeSequenceNumber ==
    Encoding =>
        LET assigned ==
                IF sent.isRequest THEN last % 256
                ELSE IF sent.Identifier = DPKT_MSGID_UNSOLICITED_CHARACTERISTIC_NOTIFICATION
                     THEN 0
                     ELSE last
        IN  /\ pkt.SequenceNumber = assigned
            /\ pc = "encoded" => buf[3] = assigned

C17_Witness ==
    /\ pc = "encoded"
    /\ sent.Identifier = DPKT_MSGID_UNSOLICITED_CHARACTERISTIC_NOTIFICATION
    /\ ~sent.isRequest
    /\ last = 5
    /\ pkt.SequenceNumber = 0 /\ buf[3] = 0

\* C18: for every identifier but Error, both directions and every
\* lastSequenceNumber, encode returns a byte sequence, the frame's sequence
\* number is the 8-bit value (0 for a notification, lastSequenceNumber
\* modulo 256 otherwise) and the third byte returned is that value.
C18_SequenceNumberIsByte ==
    Encoding =>
        /\ pc = "encoded"
        /\ pkt.SequenceNumber \in 0..255
        /\ pkt.SequenceNumber \in {0, last % 256}
        /\ Len(buf) >= 6 /\ buf[3] = pkt.SequenceNumber

\* C19 as stated: for every frame encode emits, the 16-bit big-endian
\* length field in bytes 4-5 equals the number of payload bytes that follow
\* the header, whatever Length was before and whatever uuids and payload hold.
C19_Original ==
    (Encoding /\ pc = "encoded") =>
        /\ Len(buf) >= 6
        /\ FrameLen(buf) = Len(buf) - 6

\* C19 amended: the length field equals the number of payload bytes
\* modulo 2^16, hence that number whenever the payload is at most 65535
\* bytes, whatever Length was before.
C19_LengthField ==
    (Encoding /\ pc = "encoded") =>
        /\ Len(buf) >= 6
        /\ FrameLen(buf) = (Len(buf) - 6) % LengthFieldModulus
        /\ pkt.Length = Len(buf) - 6

C19_Witness ==
    /\ pc = "encoded"
    /\ sent.Identifier = DPKT_MSGID_DISCOVER_SERVICES /\ ~sent.isRequest
    /\ sent.ResponseCode = DPKT_RESPCODE_SUCCESS_REQUEST
    /\ sent.Length = 99 /\ Len(sent.uuids) = 2
    /\ FrameLen(buf) = 32 /\ Len(buf) = 38

\* C20: encoding a frame that is not a request, whose response code is not
\* success and whose identifier is not Error produces exactly the 6-byte
\* header with length 0 and no payload, whatever uuid, uuids and payload
\* the frame holds.
C20_FailedResponseIsHeaderOnly ==
    (Encoding /\ ~sent.isRequest
        /\ sent.ResponseCode # DPKT_RESPCODE_SUCCESS_REQUEST) =>
        /\ pc = "encoded"
        /\ Len(buf) = 6
        /\ FrameLen(buf) = 0
        /\ FrameId(buf) = sent.Identifier /\ FrameResp(buf) = sent.ResponseCode

\* what does hold: whenever encode returns for such a frame, it returns the
\* header alone
FailedResponseIsHeaderOnlyWhenReturned ==
    (pc = "encoded" /\ sent.Identifier # DPKT_MSGID_ERROR /\ ~sent.isRequest
        /\ sent.ResponseCode # DPKT_RESPCODE_SUCCESS_REQUEST) =>
        /\ Len(buf) = 6
        /\ FrameLen(buf) = 0
        /\ FrameId(buf) = sent.Identifier /\ FrameResp(buf) = sent.ResponseCode

\* the 16 bytes of b from Python offset on are the base template with the
\* high and low byte of u at offsets 2 and 3
IsExpanded(b, offset, u) ==
    /\ Len(b) >= offset + 16
    /\ \A j \in 0..15 :
          b[offset + j + 1] =
              IF j = 2 THEN (u \div 256) % 256
              ELSE IF j = 3 THEN u % 256
              ELSE BASE_UUID[j + 1]

\* the bytes are a header, the expanded service UUID and one 17-byte group
\* per entry of uuids: the expanded UUID and the payload byte at the same
\* position, or 0
CharacteristicsLayout(b, f) ==
    LET n == Len(f.uuids)
    IN  /\ Len(b) = 6 + 16 + 17 * n
        /\ FrameLen(b) = 16 + 17 * n
        /\ IsExpanded(b, 6, f.uuid)
        /\ \A k \in 1..n :
              /\ IsExpanded(b, 22 + 17 * (k - 1), f.uuids[k])
              /\ b[22 + 17 * k] = IF k <= Len(f.additional_data)
                                  THEN f.additional_data[k] ELSE 0

SuccessfulCharacteristicsResponse(f) ==
    /\ f.Identifier = DPKT_MSGID_DISCOVER_CHARACTERISTICS
    /\ ~f.isRequest
    /\ f.ResponseCode = DPKT_RESPCODE_SUCCESS_REQUEST

\* C21: encoding a successful DiscoverCharacteristics response emits the
\* expanded service UUID followed by one 17-byte group per entry of uuids, in
\* order (the expanded UUID plus the payload byte at the same position, or 0
\* when the payload has none there); the emitted length is
\* 16 + 17 * len(uuids) and payload bytes beyond len(uuids) are not emitted.
C21_CharacteristicsResponse ==
    (Encoding /\ SuccessfulCharacteristicsResponse(sent)) =>
        /\ pc = "encoded"
        /\ CharacteristicsLayout(buf, sent)

\* what does hold: whenever encode returns for such a frame, the bytes are
\* laid out as C21 says
CharacteristicsResponseWhenReturned ==
    (pc = "encoded" /\ SuccessfulCharacteristicsResponse(sent)) =>
        CharacteristicsLayout(buf, sent)

CharacteristicsResponseShortPayload ==
    /\ pc = "encoded" /\ SuccessfulCharacteristicsResponse(sent)
    /\ Len(sent.uuids) = 2 /\ Len(sent.additional_data) = 1
    /\ Len(buf) = 56 /\ buf[39] = sent.additional_data[1] /\ buf[56] = 0

\* C22: encoding a frame whose identifier is Error returns the empty byte
\* sequence for every lastSequenceNumber and leaves every field of the
\* frame unchanged.
C22_ErrorEncodesToNothing ==
    (pc \in {"encoded", "raised"} /\ sent.Identifier = DPKT_MSGID_ERROR) =>
        /\ pc = "encoded"
        /\ buf = <<>>
        /\ pkt = sent

C22_Witness ==
    /\ pc = "encoded"
    /\ sent.Identifier = DPKT_MSGID_ERROR
    /\ last = 261 /\ sent.isRequest /\ sent.Length = 99
    /\ sent.uuids # <<>> /\ sent.additional_data # <<>>
    /\ buf = <<>> /\ pkt = sent

-----------------------------------------------------------------------------
(* SpecUuid: encode and parse applied to a ReadCharacteristic request of   *)
(* every short code                                                        *)

ShortCodes == 0..65535

InitUuid ==
    /\ pc = "obj"
    /\ pkt \in {[NewPacket EXCEPT !.Identifier = DPKT_MSGID_READ_CHARACTERISTIC,
                                  !.isRequest = TRUE,
                                  !.uuid = u] : u \in ShortCodes}
    /\ last = 1
    /\ pre = pkt
    /\ sent = pkt
    /\ buf = <<>>
    /\ result = 0
    /\ IdleLoop
    /\ IdleDecoder
    /\ IdleModule
    /\ IdleTasks

SpecUuid == InitUuid /\ [][NextRound]_vars

\* C23: for every short code u in 0..65535 the 16-byte block encode writes
\* is the base template except at offsets 2 and 3, which hold the high and
\* the low byte of u; reading offsets 2 and 3 of the block big-endian gives
\* u, and so does parse; BASE_UUID holds its initial bytes before and after
\* every encode and parse call.
C23_UuidRoundTrip ==
    /\ base_uuid = BASE_UUID
    /\ pc \in {"encoded", "roundtrip"} =>
          /\ Len(buf) = 22
          /\ IsExpanded(buf, 6, sent.uuid)
          /\ buf[9] * 256 + buf[10] = sent.uuid
    /\ pc = "roundtrip" => result = 22 /\ pkt.uuid = sent.uuid

C23_Witness ==
    /\ pc = "roundtrip"
    /\ sent.uuid = 65535 - 256
    /\ buf[9] = 254 /\ buf[10] = 255
    /\ pkt.uuid = sent.uuid
    /\ base_uuid = BASE_UUID

-----------------------------------------------------------------------------
(* SpecDecode: decode_indoor_bike_data applied once to each payload *)

\* how many of the 16 Flags bits are set at most in a generated payload
MaxBits == 2

RECURSIVE FlagsOfBits(_)
FlagsOfBits(S) ==
    IF S = {} THEN 0
    ELSE LET k == CHOOSE x \in S : TRUE
         IN  Pow2(k) + FlagsOfBits(S \ {k})

FlagSet == {FlagsOfBits(S) : S \in {T \in SUBSET (0..15) : Cardinality(T) <= MaxBits}}

\* the wire rules of the characteristic: table entry i (2..16) is on the wire
\* iff bit 0 is clear (InstantaneousSpeed) or bit i - 2 is set (the others)
Announced(i, flags) ==
    IF i = 2 THEN Bit(flags, 0) = 0 ELSE Bit(flags, i - 2) = 1

FieldSizes == <<2, 2, 2, 2, 2, 3, 2, 2, 2, 2, 2, 1, 1, 1, 2, 2>>
FieldKeys ==
    <<"Flags", "speed", "AverageSpeed", "cadence", "AverageCadence", "distance",
      "ResistanceLevel", "power", "AveragePower", "TotalEnergy", "EnergyPerHour",
      "EnergyPerMinute", "heartRate", "MetabolicEquivalent", "ElapsedTime",
      "RemainingTime">>

\* the bytes a sender writes for table entry i: distinct per field and byte
FieldBytes(i, seed) == [j \in 1..FieldSizes[i] |-> (seed + 16 * i + j) % 256]

RECURSIVE AnnouncedFields(_, _, _)
AnnouncedFields(flags, i, seed) ==
    IF i > 16 THEN <<>>
    ELSE (IF Announced(i, flags) THEN FieldBytes(i, seed) ELSE <<>>)
            \o AnnouncedFields(flags, i + 1, seed)

\* a payload laid out as its Flags announce
LaidOut(flags, seed) ==
    <<flags % 256, flags \div 256>> \o AnnouncedFields(flags, 2, seed)

Prefixes(s) == {SubSeq(s, 1, n) : n \in 0..Len(s)}

\* bit 0 clear and bits 1..14 set: all 15 fields are on the wire
FullFlags == FlagsOfBits(1..14)

\* Flags 0 and an InstantaneousSpeed of raw value 1234
SpeedExample == <<0, 0, 210, 4>>

DecodeInputs ==
    UNION {Prefixes(LaidOut(flags, seed)) :
              flags \in FlagSet \cup {FullFlags}, seed \in {1, 130}}
        \cup {SpeedExample}

InitDecode ==
    /\ pc = "payload"
    /\ data \in DecodeInputs
    /\ decoded = None
    /\ IdleCodec
    /\ IdleLoop
    /\ IdleModule
    /\ IdleTasks

DecodeCall ==
    /\ pc = "payload"
    /\ decoded' = decode_indoor_bike_data(data)
    /\ pc' = "decoded"
    /\ UNCHANGED data
    /\ UNCHANGED codecVars
    /\ UNCHANGED loopVars
    /\ UNCHANGED moduleVars
    /\ UNCHANGED taskVars

NextDecode == DecodeCall

SpecDecode == InitDecode /\ [][NextDecode]_vars

PayloadFlags(d) == d[1] + 256 * d[2]

RECURSIVE AnnouncedSize(_, _)
AnnouncedSize(flags, i) ==
    IF i > 16 THEN 0
    ELSE (IF Announced(i, flags) THEN FieldSizes[i] ELSE 0)
            + AnnouncedSize(flags, i + 1)

\* 2-byte Flags followed by exactly the announced fields
WellLaidOut(d) ==
    Len(d) >= 2 /\ Len(d) = 2 + AnnouncedSize(PayloadFlags(d), 2)

\* C5: presence-bit law: for every payload laid out as its Flags announce
\* the record holds each of the 15 optional fields iff its presence rule
\* holds (InstantaneousSpeed iff bit 0 is 0, each other field iff its bit,
\* 1 for AverageSpeed through 14 for RemainingTime, is 1).
C5_PresenceBitLaw ==
    (pc = "decoded" /\ WellLaidOut(data)) =>
        \A i \in 2..16 :
            (FieldKeys[i] \in DOMAIN decoded) <=> Announced(i, PayloadFlags(data))

\* C24: decode_indoor_bike_data returns None exactly when the payload has
\* fewer than 2 bytes; for every payload of 2 or more bytes it returns a
\* record that holds Flags, the little-endian 16-bit value of the first
\* two bytes.
C24_TooShort ==
    pc = "decoded" =>
        /\ decoded = None <=> Len(data) < 2
        /\ Len(data) >= 2 =>
              /\ "Flags" \in DOMAIN decoded
              /\ decoded["Flags"] = data[1] + 256 * data[2]

C24_Witness ==
    /\ pc = "decoded"
    /\ Len(data) = 2 /\ data[2] > 0
    /\ DOMAIN decoded = {"Flags"}
    /\ decoded["Flags"] = data[1] + 256 * data[2]

C24_WitnessNone ==
    pc = "decoded" /\ Len(data) = 1 /\ decoded = None

\* the Python offset of table entry i in a payload laid out as flags
\* announce: 2 plus the sizes of the announced entries before it
OwnOffset(i, flags) == 2 + AnnouncedSize(flags, 2) - AnnouncedSize(flags, i)

\* the first table entry whose size exceeds what remains of d at its own
\* offset (17 when every entry fits)
FirstThatDoesNotFit(d) ==
    LET short == {i \in 2..16 :
                    OwnOffset(i, PayloadFlags(d)) + FieldSizes[i] > Len(d)}
    IN  IF short = {} THEN 17 ELSE CHOOSE i \in short : \A j \in short : i <= j

\* C25: truncation tolerance: for every payload of at least 2 bytes the
\* decoder returns a record, and the record holds exactly Flags and the
\* fields with a true presence predicate that come before the first table
\* field whose declared size exceeds the remaining bytes (so every byte read
\* lies within the payload and no later field appears); a 4-byte payload
\* with bit 0 clear yields exactly Flags and the instantaneous speed.
C25_TruncationTolerance ==
    (pc = "decoded" /\ Len(data) >= 2) =>
        /\ decoded # None
        /\ \A i \in 2..16 :
              (FieldKeys[i] \in DOMAIN decoded) <=>
                 /\ Announced(i, PayloadFlags(data))
                 /\ i < FirstThatDoesNotFit(data)
        /\ (Len(data) = 4 /\ Bit(PayloadFlags(data), 0) = 0) =>
              /\ DOMAIN decoded = {"Flags", "speed"}
              /\ decoded["speed"] = data[3] + 256 * data[4]

\* the Python offset the loop has reached at table entry i: it adds the
\* size of every entry before i, present or not
RECURSIVE TableOffset(_)
TableOffset(i) == IF i <= 1 THEN 0 ELSE TableOffset(i - 1) + FieldSizes[i - 1]

\* what does hold: the decoder never fails on 2 or more bytes, it keeps
\* exactly the present fields before the first entry that does not fit at
\* the table offset, and the 4-byte case is as C25 says
TruncationAtTableOffset ==
    (pc = "decoded" /\ Len(data) >= 2) =>
        /\ decoded # None
        /\ \A i \in 2..16 :
              (FieldKeys[i] \in DOMAIN decoded) <=>
                 /\ Announced(i, PayloadFlags(data))
                 /\ \A j \in 2..i : TableOffset(j) + FieldSizes[j] <= Len(data)
        /\ (Len(data) = 4 /\ Bit(PayloadFlags(data), 0) = 0) =>
              /\ DOMAIN decoded = {"Flags", "speed"}
              /\ decoded["speed"] = data[3] + 256 * data[4]

\* the integer a field's bytes hold: unsigned 8/16-bit, signed 16-bit
\* two's complement or 3-byte unsigned, little-endian
RawInteger(type, bytes) ==
    CASE type = "Uint8" -> bytes[1]
      [] type = "Uint16" -> bytes[1] + 256 * bytes[2]
      [] type = "Int16" ->
            IF bytes[2] >= 128 THEN bytes[1] + 256 * bytes[2] - 65536
            ELSE bytes[1] + 256 * bytes[2]
      [] type = "Uint24" -> bytes[1] + 256 * bytes[2] + 65536 * bytes[3]

\* the bytes the decoder unpacked for table entry i
BytesRead(d, i) ==
    SubSeq(d, TableOffset(i) + 1, TableOffset(i) + FieldSizes[i])

\* C26: resolution scaling: every decoded field value is the raw integer
\* the decoder unpacked for the field (unsigned 8/16-bit, signed 16-bit
\* two's complement or 3-byte unsigned, little-endian) multiplied by the
\* field's resolution; values are kept in hundredths, so raw 1234 at
\* resolution 0.01 is 1234 hundredths (12.34) and raw 5 at resolution 1 is
\* 500 hundredths (5).
C26_ResolutionScaling ==
    (pc = "decoded" /\ decoded # None) =>
        \A i \in 2..16 :
            FieldKeys[i] \in DOMAIN decoded =>
                decoded[FieldKeys[i]] =
                    RawInteger(FIELD_DEFS[i].type, BytesRead(data, i))
                        * FIELD_DEFS[i].res100

C26_Witness ==
    /\ pc = "decoded"
    /\ data = SpeedExample
    /\ decoded["speed"] = 1234

\* a negative signed field, a 3-byte field and a 1-byte field, all scaled by 1
C26_WitnessTypes ==
    /\ pc = "decoded"
    /\ WellLaidOut(data) /\ PayloadFlags(data) = FullFlags
    /\ decoded["TotalEnergy"] < 0
    /\ decoded["TotalEnergy"] = 100 * (data[20] + 256 * data[21] - 65536)
    /\ decoded["distance"] = 100 * (data[11] + 256 * data[12] + 65536 * data[13])
    /\ decoded["heartRate"] = 100 * data[25]
    /\ decoded["cadence"] = 50 * (data[7] + 256 * data[8])

\* the bytes of table entry i in a payload laid out as its Flags announce
OwnBytes(d, i) ==
    SubSeq(d, OwnOffset(i, PayloadFlags(d)) + 1,
              OwnOffset(i, PayloadFlags(d)) + FieldSizes[i])

\* C29: fields whose presence predicate is false occupy no bytes: for a
\* payload laid out as its Flags announce, every returned value is the
\* scaled raw value of the bytes at offset 2 plus the total size of the
\* present fields that precede the field in the table.
C29_AbsentFieldsOccupyNoBytes ==
    (pc = "decoded" /\ WellLaidOut(data)) =>
        \A i \in 2..16 :
            FieldKeys[i] \in DOMAIN decoded =>
                /\ Announced(i, PayloadFlags(data))
                /\ decoded[FieldKeys[i]] =
                      RawInteger(FIELD_DEFS[i].type, OwnBytes(data, i))
                          * FIELD_DEFS[i].res100

-----------------------------------------------------------------------------
(* Spec: handle_device of tcp-vjoy.py on one connection.  Every step from  *)
(* one await to the next is one action.                                    *)

\* len(DEVICE_IPS)
NumDevices == 4
\* reader.read(1024)
READ_SIZE == 1024

\* DirconPacket.handle_notification: the decoded record or None
handle_notification_AnyUuid(self) ==
    IF self.Identifier # DPKT_MSGID_UNSOLICITED_CHARACTERISTIC_NOTIFICATION THEN None
    ELSE decode_indoor_bike_data(self.additional_data)
handle_notification(self) ==
    IF self.Identifier # DPKT_MSGID_UNSOLICITED_CHARACTERISTIC_NOTIFICATION THEN None
    ELSE IF self.uuid = INDOOR_BIKE_DATA_CHAR_UUID
    THEN decode_indoor_bike_data(self.additional_data)
    ELSE None

RECURSIVE Flatten(_)
Flatten(frames) ==
    IF frames = <<>> THEN <<>> ELSE Head(frames) \o Flatten(Tail(frames))

\* the bytes the device sends on the connection
Stream == Flatten(inbound)

\* how many frames one inbound stream holds at most
MaxFrames == 2

Notification(u, value) ==
    Header(DPKT_MSGID_UNSOLICITED_CHARACTERISTIC_NOTIFICATION, 0, 0, 16 + Len(value))
        \o UuidBlock(u) \o value

\* the frames a device is made to send: a 10-byte error response, the
\* response to the handler's request, Indoor Bike Data notifications with
\* and without a speed, a notification of another characteristic and a
\* malformed frame
FramePool ==
    { Wire(DPKT_MSGID_ENABLE_CHARACTERISTIC_NOTIFICATIONS, 1, 3, 4, "value"),
      Wire(DPKT_MSGID_ENABLE_CHARACTERISTIC_NOTIFICATIONS, 1, 0, 16, "value"),
      Notification(INDOOR_BIKE_DATA_CHAR_UUID, <<68, 2, 210, 4>>),
      Notification(INDOOR_BIKE_DATA_CHAR_UUID, <<1, 0>>),
      Notification(BIKE_RESISTANCE_GAIN_CHAR_UUID, <<0, 0, 100, 0>>),
      Wire(DPKT_MSGID_DISCOVER_SERVICES, 1, 0, 4, "value") }

\* one frame of every identifier, response code and declared length
SingleFrames ==
    {Wire(id, 0, rc, len, "groups") : id \in IdSet, rc \in RespSet, len \in LenSet}

Scenarios ==
    (SeqsUpTo(FramePool, MaxFrames) \ {<<>>}) \cup {<<w>> : w \in SingleFrames}

\* the handlers modelled: those of the first and of the last device
DeviceIndices == {0, NumDevices - 1}

Init ==
    /\ pc = "start"
    /\ inbound \in Scenarios
    /\ dev_index \in DeviceIndices
    /\ global_speeds = [i \in 0..(NumDevices - 1) |-> 0]
    /\ seq = 0
    /\ recvd = 0
    /\ handled = 0
    /\ written = <<>>
    /\ updates = 0
    /\ IdleCodec
    /\ IdleDecoder
    /\ IdleModule
    /\ IdleTasks

\* asyncio.open_connection raises: the handler logs and returns
ConnectFail ==
    /\ pc = "start"
    /\ pc' = "failed"
    /\ UNCHANGED codecVars
    /\ UNCHANGED loopVars
    /\ UNCHANGED decoderVars
    /\ UNCHANGED moduleVars
    /\ UNCHANGED taskVars

\* the connection opens: the EnableNotifications request is encoded with
\* seq = 1 and written, seq becomes 2 and buf is empty
Connect ==
    /\ pc = "start"
    /\ LET request == [NewPacket EXCEPT
                          !.isRequest = TRUE,
                          !.Identifier = DPKT_MSGID_ENABLE_CHARACTERISTIC_NOTIFICATIONS,
                          !.uuid = INDOOR_BIKE_DATA_CHAR_UUID]
           r == encode(request, 1)
       IN  /\ sent' = request
           /\ written' = Append(written, r.out)
    /\ seq' = 1 + 1
    /\ buf' = <<>>
    /\ pc' = "reading"
    /\ UNCHANGED <<pkt, pre, last, result>>
    /\ UNCHANGED <<inbound, recvd, handled, dev_index, global_speeds, updates>>
    /\ UNCHANGED decoderVars
    /\ UNCHANGED moduleVars
    /\ UNCHANGED taskVars

\* buf after parse returned ret on b: kept on NeedMoreData, emptied on an
\* error, otherwise buf[result:]
RemainderReset(b, ret) == IF ret = DPKT_PARSE_WAIT THEN b ELSE <<>>
Remainder(b, ret) ==
    IF ret = DPKT_PARSE_WAIT THEN b
    ELSE IF ret < 0 THEN <<>>
    ELSE SliceFrom(b, ret)

\* one pass of the while loop: reader.read delivers the next n bytes, they
\* are appended to buf and parse is called once on a fresh DirconPacket
Read(n) ==
    /\ pc = "reading"
    /\ n >= 1
    /\ n <= READ_SIZE
    /\ recvd + n <= Len(Stream)
    /\ LET chunk == SubSeq(Stream, recvd + 1, recvd + n)
           b == buf \o chunk
           r == parse(NewPacket, b, seq - 1)
           resp == r.obj
           record == handle_notification(resp)
           speed == /\ r.ret >= 0
                    /\ resp.Identifier = DPKT_MSGID_UNSOLICITED_CHARACTERISTIC_NOTIFICATION
                    /\ record # None
                    /\ "speed" \in DOMAIN record
       IN  /\ pre' = NewPacket
           /\ pkt' = resp
           /\ last' = seq - 1
           /\ result' = r.ret
           /\ buf' = Remainder(b, r.ret)
           /\ handled' = IF r.ret >= 0 THEN handled + 1 ELSE handled
           /\ decoded' = IF r.ret >= 0 THEN record ELSE decoded
           /\ global_speeds' = IF speed
                               THEN [global_speeds EXCEPT ![dev_index] = record["speed"]]
                               ELSE global_speeds
           /\ updates' = IF speed THEN updates + 1 ELSE updates
    /\ recvd' = recvd + n
    /\ UNCHANGED <<pc, sent, seq, inbound, written, dev_index, data>>
    /\ UNCHANGED moduleVars
    /\ UNCHANGED taskVars

\* reader.read returns b"": the loop breaks and the writer is closed
Eof ==
    /\ pc = "reading"
    /\ recvd = Len(Stream)
    /\ pc' = "closed"
    /\ UNCHANGED codecVars
    /\ UNCHANGED loopVars
    /\ UNCHANGED decoderVars
    /\ UNCHANGED moduleVars
    /\ UNCHANGED taskVars

Next ==
    \/ ConnectFail
    \/ Connect
    \/ \E n \in 1..Len(Stream) : Read(n)
    \/ Eof

Spec == Init /\ [][Next]_vars

-----------------------------------------------------------------------------
(* Claims about the read loop, checked under Spec *)

\* the payload shapes of section "parsing", per identifier
ShapeOK(id, n) ==
    CASE id = DPKT_MSGID_DISCOVER_SERVICES -> n % 16 = 0
      [] id = DPKT_MSGID_DISCOVER_CHARACTERISTICS -> n >= 16 /\ (n - 16) % 17 = 0
      [] id = DPKT_MSGID_READ_CHARACTERISTIC -> n >= 16
      [] id = DPKT_MSGID_WRITE_CHARACTERISTIC -> n > 16
      [] id = DPKT_MSGID_ENABLE_CHARACTERISTIC_NOTIFICATIONS -> n \in {16, 17}
      [] id = DPKT_MSGID_UNSOLICITED_CHARACTERISTIC_NOTIFICATION -> n > 16
      [] OTHER -> FALSE

\* b is exactly one frame that is an error response or has its identifier's shape
WellFormed(b) ==
    /\ Len(b) >= 6
    /\ Len(b) = 6 + FrameLen(b)
    /\ FrameResp(b) # 0 \/ ShapeOK(FrameId(b), FrameLen(b))

\* C1: streaming reassembly: while only a proper prefix of a well-formed
\* frame has been appended, however it was split, parse returned
\* NeedMoreData and the buffer keeps every byte; once the whole frame has
\* been appended parse succeeded, consumed the whole frame and left zero bytes.
C1_StreamingReassembly ==
    (pc = "reading" /\ recvd > 0 /\ WellFormed(inbound[1])
        /\ recvd <= Len(inbound[1])) =>
        IF recvd < Len(inbound[1])
        THEN /\ result = DPKT_PARSE_WAIT
             /\ buf = SubSeq(inbound[1], 1, recvd)
             /\ handled = 0
        ELSE /\ result = Len(inbound[1])
             /\ buf = <<>>
             /\ handled = 1

\* the 10-byte frame has arrived whole and was consumed
C1_Witness ==
    /\ pc = "reading"
    /\ Len(inbound[1]) = 10 /\ WellFormed(inbound[1])
    /\ recvd = 10
    /\ result = 10 /\ buf = <<>> /\ handled = 1

\* how many whole frames of the inbound stream lie within its first n bytes
RECURSIVE FramesWithin(_, _)
FramesWithin(frames, n) ==
    IF frames = <<>> \/ Len(Head(frames)) > n THEN 0
    ELSE 1 + FramesWithin(Tail(frames), n - Len(Head(frames)))

\* C2: whenever the read loop goes back to waiting for input the buffer
\* holds no complete frame, and every fully received frame has been handled.
C2_DrainsBuffer ==
    (pc = "reading" /\ \A k \in 1..Len(inbound) : WellFormed(inbound[k])) =>
        /\ ~FrameComplete(buf)
        /\ handled = FramesWithin(inbound, recvd)

\* b is exactly one complete success-code frame that parse rejects
Malformed(b) ==
    /\ Len(b) >= 6
    /\ Len(b) = 6 + FrameLen(b)
    /\ FrameResp(b) = 0
    /\ ~ShapeOK(FrameId(b), FrameLen(b))

\* C16: when the stream is a malformed frame followed by a well-formed one,
\* the read loop drops the malformed frame's bytes only: while the second
\* frame is arriving the buffer holds every byte received after the
\* malformed frame, and once it has arrived whole it has been parsed or is
\* still in the buffer.
C16_SkipsMalformedFrameOnly ==
    (pc = "reading" /\ Len(inbound) = 2
        /\ Malformed(inbound[1]) /\ WellFormed(inbound[2])
        /\ recvd >= Len(inbound[1])) =>
        IF recvd < Len(Stream)
        THEN buf = SubSeq(Stream, Len(inbound[1]) + 1, recvd) /\ handled = 0
        ELSE \/ handled = 1 /\ buf = <<>>
             \/ handled = 0 /\ buf = inbound[2]

-----------------------------------------------------------------------------
(* SpecMain: main() of tcp-vjoy.py: one handle_device task per device,     *)
(* interleaved at their awaits.  tasks[i] holds the local variables of the *)
(* task of device i; global_speeds is the one dictionary they share.       *)

Devices == 0..(NumDevices - 1)

\* what device i sends: device 0 an Indoor Bike Data notification, the
\* others a 6-byte error response whose response code is the device index
DeviceStream(i) ==
    IF i = 0 THEN Notification(INDOOR_BIKE_DATA_CHAR_UUID, <<68, 2, 210, 4>>)
    ELSE Header(DPKT_MSGID_ENABLE_CHARACTERISTIC_NOTIFICATIONS, 1, i, 0)

\* buf and seq are local variables of handle_device: each task has its own
SetShared(ts, i, local) ==
    [j \in DOMAIN ts |->
        IF j = i THEN local
        ELSE [ts[j] EXCEPT !.buf = local.buf, !.seq = local.seq]]
SetLocal(ts, i, local) == [ts EXCEPT ![i] = local]

\* asyncio.gather over handle_device(ip, idx) for idx, ip in enumerate(DEVICE_IPS)
InitMain ==
    /\ pc = "gather"
    /\ tasks = [i \in Devices |->
                  [pc |-> "start", buf |-> <<>>, seq |-> 0, recvd |-> 0,
                   handled |-> 0, written |-> <<>>]]
    /\ global_speeds = [i \in Devices |-> 0]
    /\ updates = 0
    /\ seq = 0
    /\ inbound = <<>>
    /\ recvd = 0
    /\ handled = 0
    /\ written = <<>>
    /\ dev_index = 0
    /\ IdleCodec
    /\ IdleDecoder
    /\ IdleModule

\* asyncio.open_connection raises in the task of device i
TaskConnectFail(i) ==
    /\ tasks[i].pc = "start"
    /\ tasks' = SetLocal(tasks, i, [tasks[i] EXCEPT !.pc = "failed"])
    /\ UNCHANGED <<pc, global_speeds, updates, seq, inbound, recvd, handled,
                   written, dev_index>>
    /\ UNCHANGED codecVars
    /\ UNCHANGED decoderVars
    /\ UNCHANGED moduleVars

\* the connection of device i opens: the request is written, seq becomes 2
TaskConnect(i) ==
    /\ tasks[i].pc = "start"
    /\ LET request == [NewPacket EXCEPT
                          !.isRequest = TRUE,
                          !.Identifier = DPKT_MSGID_ENABLE_CHARACTERISTIC_NOTIFICATIONS,
                          !.uuid = INDOOR_BIKE_DATA_CHAR_UUID]
           r == encode(request, 1)
       IN  tasks' = SetLocal(tasks, i,
                       [tasks[i] EXCEPT !.pc = "reading",
                                        !.written = Append(@, r.out),
                                        !.seq = 1 + 1,
                                        !.buf = <<>>])
    /\ UNCHANGED <<pc, global_speeds, updates, seq, inbound, recvd, handled,
                   written, dev_index>>
    /\ UNCHANGED codecVars
    /\ UNCHANGED decoderVars
    /\ UNCHANGED moduleVars

\* one pass of the while loop in the task of device i
TaskRead(i, n) ==
    /\ tasks[i].pc = "reading"
    /\ n >= 1
    /\ n <= READ_SIZE
    /\ tasks[i].recvd + n <= Len(DeviceStream(i))
    /\ LET local == tasks[i]
           chunk == SubSeq(DeviceStream(i), local.recvd + 1, local.recvd + n)
           b == local.buf \o chunk
           r == parse(NewPacket, b, local.seq - 1)
           resp == r.obj
           record == handle_notification(resp)
           speed == /\ r.ret >= 0
                    /\ resp.Identifier = DPKT_MSGID_UNSOLICITED_CHARACTERISTIC_NOTIFICATION
                    /\ record # None
                    /\ "speed" \in DOMAIN record
       IN  /\ tasks' = SetLocal(tasks, i,
                          [local EXCEPT
                              !.buf = IF r.ret = DPKT_PARSE_WAIT THEN b
                                      ELSE IF r.ret < 0 THEN <<>>
                                      ELSE SliceFrom(b, r.ret),
                              !.handled = IF r.ret >= 0 THEN @ + 1 ELSE @,
                              !.recvd = @ + n])
           /\ decoded' = IF r.ret >= 0 THEN record ELSE decoded
           /\ global_speeds' = IF speed
                               THEN [global_speeds EXCEPT ![i] = record["speed"]]
                               ELSE global_speeds
           /\ updates' = IF speed THEN updates + 1 ELSE updates
    /\ UNCHANGED <<pc, seq, inbound, recvd, handled, written, dev_index, data>>
    /\ UNCHANGED codecVars
    /\ UNCHANGED moduleVars

\* reader.read returns b"" in the task of device i
TaskEof(i) ==
    /\ tasks[i].pc = "reading"
    /\ tasks[i].recvd = Len(DeviceStream(i))
    /\ tasks' = SetLocal(tasks, i, [tasks[i] EXCEPT !.pc = "closed"])
    /\ UNCHANGED <<pc, global_speeds, updates, seq, inbound, recvd, handled,
                   written, dev_index>>
    /\ UNCHANGED codecVars
    /\ UNCHANGED decoderVars
    /\ UNCHANGED moduleVars

NextMain ==
    \E i \in Devices :
        \/ TaskConnectFail(i)
        \/ TaskConnect(i)
        \/ \E n \in 1..Len(DeviceStream(i)) : TaskRead(i, n)
        \/ TaskEof(i)

SpecMain == InitMain /\ [][NextMain]_vars

\* s is t with some bytes dropped at its front
IsSuffix(s, t) ==
    Len(s) <= Len(t) /\ s = SubSeq(t, Len(t) - Len(s) + 1, Len(t))

\* C27: each connection has its own buffer and its own sequence counter:
\* in every step of every interleaving of the four handlers, at most one
\* task's locals change, the bytes a connection delivers go to that
\* connection's buffer only (it becomes its old contents plus the chunk,
\* less what parse consumed or discarded), and no counter decreases.
C27_ConnectionsAreIndependent ==
    [][\A i \in Devices :
          /\ tasks'[i].seq >= tasks[i].seq
          /\ tasks'[i] # tasks[i] =>
                \A j \in Devices \ {i} : tasks'[j] = tasks[j]
          /\ tasks'[i].recvd > tasks[i].recvd =>
                IsSuffix(tasks'[i].buf,
                         tasks[i].buf \o SubSeq(DeviceStream(i),
                                                tasks[i].recvd + 1,
                                                tasks'[i].recvd))
          /\ tasks'[i].recvd = tasks[i].recvd =>
                tasks'[i].buf = tasks[i].buf
      ]_vars

\* two connections hold different partial frames while a third has not
\* connected yet
C27_Witness ==
    /\ pc = "gather"
    /\ tasks[0].pc = "reading" /\ tasks[1].pc = "reading"
    /\ tasks[0].buf = SubSeq(DeviceStream(0), 1, 7)
    /\ tasks[1].buf = SubSeq(DeviceStream(1), 1, 4)
    /\ tasks[0].seq = 2 /\ tasks[1].seq = 2
    /\ tasks[2].pc = "start" /\ tasks[2].seq = 0
    /\ tasks[3].pc = "closed" /\ tasks[3].handled = 1

-----------------------------------------------------------------------------
(* SpecReconnect: handle_device_loop of ble-vjoy-reconnect.py, one task    *)
(* per KICKR found.  tasks[i].pc is the await the task is suspended at,    *)
(* tasks[i].cause why the session it is waiting to replace ended.          *)

\* how many KICKR devices the scan found (main keeps at most 4)
Kickrs == 3

LoopTasks == 0..(Kickrs - 1)

\* asyncio.create_task(handle_device_loop(d, axis)): the task logs
\* "Connecting..." and waits in BleakClient.__aenter__
InitReconnect ==
    /\ pc = "ble"
    /\ tasks = [i \in LoopTasks |-> [pc |-> "connecting", cause |-> "none"]]
    /\ IdleCodec
    /\ IdleLoop
    /\ IdleDecoder
    /\ IdleModule

\* except Exception as e: the error is logged, then "Reconnecting in 3
\* seconds..." and the task waits in asyncio.sleep(3)
OnErrorRaise(local) == [local EXCEPT !.pc = "done", !.cause = "error"]
OnError(local) == [local EXCEPT !.pc = "sleeping", !.cause = "error"]

\* the async with block is left without an exception, why says how
OnLeave(local, why) == [local EXCEPT !.pc = "sleeping", !.cause = why]

LoopStep(i, local) ==
    /\ tasks' = [tasks EXCEPT ![i] = local]
    /\ UNCHANGED pc
    /\ UNCHANGED codecVars
    /\ UNCHANGED loopVars
    /\ UNCHANGED decoderVars
    /\ UNCHANGED moduleVars

\* BleakClient.__aenter__ raises (timeout, device not found, ...)
ConnectRaises(i) ==
    /\ tasks[i].pc = "connecting"
    /\ LoopStep(i, OnError(tasks[i]))

\* __aenter__ returns and client.is_connected holds: "Connected" is logged
\* and the task waits in client.start_notify
ConnectReturns(i) ==
    /\ tasks[i].pc = "connecting"
    /\ LoopStep(i, [tasks[i] EXCEPT !.pc = "subscribing"])

\* __aenter__ returns but client.is_connected is false: the block is left
ConnectReturnsUnconnected(i) ==
    /\ tasks[i].pc = "connecting"
    /\ LoopStep(i, OnLeave(tasks[i], "not connected"))

\* start_notify returns: the task waits in asyncio.sleep(1)
NotifyReturns(i) ==
    /\ tasks[i].pc = "subscribing"
    /\ LoopStep(i, [tasks[i] EXCEPT !.pc = "connected"])

\* start_notify raises
NotifyRaises(i) ==
    /\ tasks[i].pc = "subscribing"
    /\ LoopStep(i, OnError(tasks[i]))

\* asyncio.sleep(1) returns and client.is_connected still holds
StillConnected(i) ==
    /\ tasks[i].pc = "connected"
    /\ LoopStep(i, tasks[i])

\* asyncio.sleep(1) returns and client.is_connected is false:
\* "Disconnected" is logged and the block is left
Disconnected(i) ==
    /\ tasks[i].pc = "connected"
    /\ LoopStep(i, OnLeave(tasks[i], "disconnected"))

\* an exception reaches the task while it is connected (client.is_connected
\* or BleakClient.__aexit__ raises)
ConnectedRaises(i) ==
    /\ tasks[i].pc = "connected"
    /\ LoopStep(i, OnError(tasks[i]))

\* asyncio.sleep(3) returns: the while True loop starts over, "Connecting..."
Wake(i) ==
    /\ tasks[i].pc = "sleeping"
    /\ LoopStep(i, [tasks[i] EXCEPT !.pc = "connecting", !.cause = "none"])

LoopNext(i) ==
    \/ ConnectRaises(i)
    \/ ConnectReturns(i)
    \/ ConnectReturnsUnconnected(i)
    \/ NotifyReturns(i)
    \/ NotifyRaises(i)
    \/ StillConnected(i)
    \/ Disconnected(i)
    \/ ConnectedRaises(i)
    \/ Wake(i)

NextReconnect == \E i \in LoopTasks : LoopNext(i)

\* the event loop resumes a task whose sleep(3) has elapsed
SpecReconnect ==
    /\ InitReconnect
    /\ [][NextReconnect]_vars
    /\ \A i \in LoopTasks : WF_vars(Wake(i))

\* C28: handle_device_loop reconnects automatically: after a connection
\* failure, an error raised while connected or a disconnect the task is in
\* its 3-second wait and from there it eventually starts a new connection
\* attempt; it never terminates: in every state it has a next step.
C28_ReconnectsForever ==
    \A i \in LoopTasks :
        /\ [](tasks[i].pc \in {"connecting", "subscribing", "connected", "sleeping"})
        /\ [](ENABLED <<LoopNext(i)>>_vars)
        /\ [](tasks[i].cause \in {"error", "disconnected", "not connected"}
                 => <>(tasks[i].pc = "connecting"))

\* a task waits to reconnect after an error while the other is connected
C28_Witness ==
    /\ pc = "ble"
    /\ tasks[0].pc = "sleeping" /\ tasks[0].cause = "error"
    /\ tasks[1].pc = "connected"

-----------------------------------------------------------------------------
(* SpecClient: tcp_client() of tcp-dircon.py.  The menu loop sends the     *)
(* requests the user chooses; read_loop, a second task, parses what the    *)
(* device sends with tcp_client's counter seq, which it reads through its  *)
(* closure.  tasks holds the state of the two tasks: main is the position  *)
(* of the menu loop, seq and services are the local variables of           *)
(* discover_all_services_and_characteristics, read_task is the state of    *)
(* the read task, read_buffer its local buffer and processed_data the      *)
(* module-level variable of that name (<<>> stands for None: a processed   *)
(* frame has at least 6 bytes).  Of the byte strings handed to             *)
(* writer.write only the most recent one is kept in written; inbound holds *)
(* what the device has sent and read_loop has not read yet.  The device    *)
(* answers every request with one frame, and the user gives the next       *)
(* command when the answer has been read and while the connection is open. *)

MaxRequests == 256

\* the resistance levels the user asks for, of the 1..12 that menu choice 4
\* accepts
ResistanceLevels == {1, 12}

\* resistance_values[level]: 50 * level, low byte first
resistance_values(level) == <<(50 * level) % 256, (50 * level) \div 256>>

\* services.py SERVICES, as the 16 bytes of each UUID
SERVICES ==
    { <<0, 0, 24, 38, 0, 0, 16, 0, 128, 0, 0, 128, 95, 155, 52, 251>>,
      <<0, 0, 24, 24, 0, 0, 16, 0, 128, 0, 0, 128, 95, 155, 52, 251>>,
      <<0, 0, 24, 13, 0, 0, 16, 0, 128, 0, 0, 128, 95, 155, 52, 251>>,
      <<0, 0, 24, 22, 0, 0, 16, 0, 128, 0, 0, 128, 95, 155, 52, 251>>,
      <<0, 0, 24, 15, 0, 0, 16, 0, 128, 0, 0, 128, 95, 155, 52, 251>>,
      <<110, 64, 254, 193, 181, 163, 243, 147, 224, 169, 229, 14, 36, 220, 202, 158>>,
      <<160, 38, 238, 11, 10, 125, 74, 179, 151, 250, 241, 80, 15, 159, 235, 139>>,
      <<0, 0, 0, 1, 25, 202, 70, 81, 134, 229, 250, 41, 220, 221, 9, 209>>,
      <<100, 4, 216, 1, 76, 185, 17, 232, 181, 102, 8, 0, 32, 12, 154, 102>>,
      <<0, 0, 33, 0, 91, 30, 67, 71, 176, 124, 151, 181, 20, 218, 225, 33>>,
      <<0, 0, 24, 10, 0, 0, 16, 0, 128, 0, 0, 128, 95, 155, 52, 251>>,
      <<0, 0, 24, 3, 0, 0, 16, 0, 128, 0, 0, 128, 95, 155, 52, 251>>,
      <<0, 0, 24, 4, 0, 0, 16, 0, 128, 0, 0, 128, 95, 155, 52, 251>>,
      <<0, 0, 24, 2, 0, 0, 16, 0, 128, 0, 0, 128, 95, 155, 52, 251>>,
      <<160, 38, 238, 1, 10, 125, 74, 179, 151, 250, 241, 80, 15, 159, 235, 139>>,
      <<160, 38, 238, 3, 10, 125, 74, 179, 151, 250, 241, 80, 15, 159, 235, 139>>,
      <<160, 38, 238, 6, 10, 125, 74, 179, 151, 250, 241, 80, 15, 159, 235, 139>> }

\* int(SERVICES["fitnessMachine"].split("-")[0], 16)
SERVICES_fitnessMachine == 6182
\* int(CHARACTERISTICS["indoorBikeData"].split("-")[0], 16)
CHARACTERISTICS_indoorBikeData == 10962
\* int(CHARACTERISTICS["fitnessMachineControlPoint"].split("-")[0], 16)
CHARACTERISTICS_fitnessMachineControlPoint == 10969

\* int(service_uuid.split("-")[0], 16): the first four bytes, big-endian
UuidPrefix(block) ==
    ((block[1] * 256 + block[2]) * 256 + block[3]) * 256 + block[4]

\* the services discover_all keeps: the whole 16-byte blocks of d that
\* parse_service_uuids gives a name, each as the uuid of its request
RECURSIVE NamedServices(_)
NamedServices(d) ==
    IF Len(d) < 16 THEN <<>>
    ELSE (IF Slice(d, 0, 16) \in SERVICES
          THEN <<UuidPrefix(Slice(d, 0, 16))>> ELSE <<>>)
            \o NamedServices(SliceFrom(d, 16))

\* pkt = DirconPacket(); pkt.isRequest = True; then what the choice sets
Request(choice, level) ==
    LET r == [NewPacket EXCEPT !.isRequest = TRUE]
    IN  CASE choice = 1 ->
               [r EXCEPT !.Identifier = DPKT_MSGID_READ_CHARACTERISTIC,
                         !.uuid = CHARACTERISTICS_indoorBikeData]
          [] choice = 2 ->
               [r EXCEPT !.Identifier = DPKT_MSGID_DISCOVER_SERVICES]
          [] choice = 3 ->
               [r EXCEPT !.Identifier = DPKT_MSGID_DISCOVER_CHARACTERISTICS,
                         !.uuid = SERVICES_fitnessMachine]
          [] choice = 4 ->
               [r EXCEPT !.Identifier = DPKT_MSGID_WRITE_CHARACTERISTIC,
                         !.uuid = CHARACTERISTICS_fitnessMachineControlPoint,
                         !.additional_data =
                             <<17, 0, 0, 79, 1>> \o resistance_values(level) \o <<60>>]
          [] OTHER ->
               [r EXCEPT !.Identifier = DPKT_MSGID_ENABLE_CHARACTERISTIC_NOTIFICATIONS,
                         !.uuid = CHARACTERISTICS_indoorBikeData]

\* the request discover_all sends for one service
CharacteristicsRequest(u) ==
    [NewPacket EXCEPT !.isRequest = TRUE,
                      !.Identifier = DPKT_MSGID_DISCOVER_CHARACTERISTICS,
                      !.uuid = u]

\* what the device may send after a request whose sequence byte was sn:
\* frames that carry sn back
Replies(sn) ==
    { Header(DPKT_MSGID_DISCOVER_SERVICES, sn, 0, 0),
      Header(DPKT_MSGID_DISCOVER_SERVICES, sn, 0, 16)
          \o UuidBlock(SERVICES_fitnessMachine),
      Header(DPKT_MSGID_DISCOVER_CHARACTERISTICS, sn, 0, 16)
          \o UuidBlock(SERVICES_fitnessMachine),
      Header(DPKT_MSGID_READ_CHARACTERISTIC, sn, 0, 16)
          \o UuidBlock(CHARACTERISTICS_indoorBikeData),
      Header(DPKT_MSGID_WRITE_CHARACTERISTIC, sn, 0, 17)
          \o UuidBlock(CHARACTERISTICS_fitnessMachineControlPoint) \o <<128>> }

InitClient ==
    /\ pc = "client"
    /\ seq = 1
    /\ tasks = [main |-> "menu", seq |-> 0, services |-> <<>>,
                read_task |-> "reading", read_buffer |-> <<>>,
                processed_data |-> <<>>]
    /\ inbound = <<>>
    /\ written = <<>>
    /\ recvd = 0
    /\ handled = 0
    /\ dev_index = 0
    /\ global_speeds = [i \in 0..3 |-> 0]
    /\ updates = 0
    /\ IdleCodec
    /\ IdleDecoder
    /\ IdleModule

\* send_request(writer, pkt, seq): request_bytes = pkt.encode(seq);
\* writer.write(request_bytes).  The caller stores the returned seq + 1.
\* The device's answer to the request is then on its way.
send_request(request, s) ==
    /\ tasks.read_task = "reading"
    /\ inbound = <<>>
    /\ sent' = request
    /\ written' = <<encode(request, s).out>>
    /\ \E reply \in Replies(FrameSeq(encode(request, s).out)) :
           inbound' = <<reply>>

\* read_task.cancel(): no effect on a task that has ended
Cancel(state) == IF state = "reading" THEN "cancelled" ELSE state

\* menu choices 1..6: seq = await send_request(writer, pkt, seq)
MenuRequest(choice, level) ==
    /\ pc = "client"
    /\ tasks.main = "menu"
    /\ seq <= MaxRequests
    /\ send_request(Request(choice, level), seq)
    /\ seq' = seq + 1
    /\ UNCHANGED <<pc, pkt, pre, buf, last, result, recvd, handled,
                   dev_index, global_speeds, updates>>
    /\ UNCHANGED decoderVars
    /\ UNCHANGED moduleVars
    /\ UNCHANGED taskVars

\* an unknown choice, or a resistance level that is not a number in 1..12:
\* the loop prints a message and continues
MenuInvalid ==
    /\ pc = "client"
    /\ tasks.main = "menu"
    /\ UNCHANGED vars

\* choice "q": read_task.cancel(); break
MenuQuit ==
    /\ pc = "client"
    /\ tasks.main = "menu"
    /\ tasks' = [tasks EXCEPT !.main = "quit", !.read_task = Cancel(@)]
    /\ UNCHANGED <<pc, seq, inbound, recvd, handled, written, dev_index,
                   global_speeds, updates>>
    /\ UNCHANGED codecVars
    /\ UNCHANGED decoderVars
    /\ UNCHANGED moduleVars

\* choice "7", up to the first sleep of discover_all: the DiscoverServices
\* request goes out with the helper's own seq; tcp_client's seq stays
DiscoverAll ==
    /\ pc = "client"
    /\ tasks.main = "menu"
    /\ seq <= MaxRequests
    /\ send_request(Request(2, 1), seq)
    /\ tasks' = [tasks EXCEPT !.main = "services", !.seq = seq + 1]
    /\ UNCHANGED <<pc, pkt, pre, buf, last, result, seq, recvd,
                   handled, dev_index, global_speeds, updates>>
    /\ UNCHANGED decoderVars
    /\ UNCHANGED moduleVars

\* after the sleep, whether or not the answer has been read by then:
\* processed_data[DPKT_MESSAGE_HEADER_LENGTH:] raises
\* TypeError while processed_data is None, which ends tcp_client;
\* otherwise the named services of the last processed frame are kept
DiscoverAllServices ==
    /\ pc = "client"
    /\ tasks.main = "services"
    /\ tasks' =
         IF tasks.processed_data = <<>>
         THEN [tasks EXCEPT !.main = "raised", !.read_task = Cancel(@)]
         ELSE [tasks EXCEPT
                 !.main = "characteristics",
                 !.services = NamedServices(
                     SliceFrom(tasks.processed_data, DPKT_MESSAGE_HEADER_LENGTH))]
    /\ UNCHANGED <<pc, seq, inbound, recvd, handled, written, dev_index,
                   global_speeds, updates>>
    /\ UNCHANGED codecVars
    /\ UNCHANGED decoderVars
    /\ UNCHANGED moduleVars

\* one turn of "for service_uuid, service_name in services": the
\* DiscoverCharacteristics request, the sleep, and the listing of
\* processed_data into the file
DiscoverAllCharacteristics ==
    /\ pc = "client"
    /\ tasks.main = "characteristics"
    /\ tasks.services # <<>>
    /\ tasks.seq <= MaxRequests
    /\ send_request(CharacteristicsRequest(Head(tasks.services)), tasks.seq)
    /\ tasks' = [tasks EXCEPT !.seq = @ + 1, !.services = Tail(@)]
    /\ UNCHANGED <<pc, pkt, pre, buf, last, result, seq, recvd,
                   handled, dev_index, global_speeds, updates>>
    /\ UNCHANGED decoderVars
    /\ UNCHANGED moduleVars

\* return seq: tcp_client's seq = await discover_all...(writer, reader, seq);
\* the helper's local variables are gone
DiscoverAllReturn ==
    /\ pc = "client"
    /\ tasks.main = "characteristics"
    /\ tasks.services = <<>>
    /\ seq' = tasks.seq
    /\ tasks' = [tasks EXCEPT !.main = "menu", !.seq = 0]
    /\ UNCHANGED <<pc, inbound, recvd, handled, written, dev_index,
                   global_speeds, updates>>
    /\ UNCHANGED codecVars
    /\ UNCHANGED decoderVars
    /\ UNCHANGED moduleVars

\* one turn of read_loop on the chunk reader.read returned:
\* read_buffer += data; result = response_pkt.parse(read_buffer, seq - 1);
\* on WAIT the buffer is kept, on an error it is emptied, otherwise
\* processed_data is the frame and the buffer what follows it
ClientRead ==
    /\ pc = "client"
    /\ tasks.read_task = "reading"
    /\ inbound # <<>>
    /\ LET chunk == Head(inbound)
           b == tasks.read_buffer \o chunk
           r == parse(NewPacket, b, seq - 1)
       IN  /\ inbound' = Tail(inbound)
           /\ buf' = b
           /\ last' = seq - 1
           /\ pre' = NewPacket
           /\ pkt' = r.obj
           /\ result' = r.ret
           /\ tasks' =
                IF r.ret = DPKT_PARSE_WAIT
                THEN [tasks EXCEPT !.read_buffer = b]
                ELSE IF r.ret < 0
                THEN [tasks EXCEPT !.read_buffer = <<>>]
                ELSE [tasks EXCEPT !.processed_data = Slice(b, 0, r.ret),
                                   !.read_buffer = SliceFrom(b, r.ret)]
    /\ UNCHANGED <<pc, sent, seq, recvd, handled, written, dev_index,
                   global_speeds, updates>>
    /\ UNCHANGED decoderVars
    /\ UNCHANGED moduleVars

\* the device has closed the connection and reader.read returns b"": break
ClientEof ==
    /\ pc = "client"
    /\ tasks.read_task = "reading"
    /\ inbound = <<>>
    /\ tasks' = [tasks EXCEPT !.read_task = "ended"]
    /\ UNCHANGED <<pc, seq, inbound, recvd, handled, written, dev_index,
                   global_speeds, updates>>
    /\ UNCHANGED codecVars
    /\ UNCHANGED decoderVars
    /\ UNCHANGED moduleVars

NextClient ==
    \/ \E choice \in 1..6, level \in ResistanceLevels : MenuRequest(choice, level)
    \/ MenuInvalid
    \/ MenuQuit
    \/ DiscoverAll
    \/ DiscoverAllServices
    \/ DiscoverAllCharacteristics
    \/ DiscoverAllReturn
    \/ ClientRead
    \/ ClientEof

SpecClient == InitClient /\ [][NextClient]_vars

-----------------------------------------------------------------------------
(* Claims about the interactive client, checked under SpecClient *)

\* read_loop has just parsed, with the current counter, a whole frame that
\* carries the sequence byte of the request written last and to which the
\* sequence comparison applies
EchoParsed ==
    /\ pc = "client"
    /\ written # <<>>
    /\ inbound = <<>>
    /\ result > 0
    /\ last = seq - 1
    /\ FrameSeq(buf) = FrameSeq(written[1])
    /\ RuleApplies(buf)

\* C30: in the interactive client, after any number of requests sent on
\* the connection (more than 255 included), an inbound frame that echoes
\* the sequence byte of the most recently sent request is parsed as a
\* response (isRequest false) wherever the sequence comparison applies.
C30_EchoIsResponse == EchoParsed => ~pkt.isRequest

\* what does hold: the echo of a request the menu loop sent is parsed as a
\* response as long as no more than 255 requests have been sent
EchoIsResponseBeforeWrap ==
    (EchoParsed /\ tasks.main = "menu" /\ seq <= 256) => ~pkt.isRequest

\* from the 256th request on the counter handed to parse is not a byte any
\* more, and every echo is taken for a request
EchoIsRequestAfterWrap ==
    (EchoParsed /\ seq > 256) => pkt.isRequest

\* the echo of the 256th request has been parsed
EchoAfterWrapParsed == EchoParsed /\ seq = 257 /\ tasks.main = "menu"

-----------------------------------------------------------------------------
(* SpecStream: the read loop of handle_device on streams of well-formed    *)
(* frames of every kind, in every order and cut into every chunking.       *)

\* the frames the streams are made of: a request (its sequence number is
\* not the one the handler sent), the response to the handler's request,
\* a failed response and an Indoor Bike Data notification
StreamPool ==
    { Header(DPKT_MSGID_DISCOVER_SERVICES, 5, 0, 0),
      Wire(DPKT_MSGID_ENABLE_CHARACTERISTIC_NOTIFICATIONS, 1, 0, 16, "value"),
      Wire(DPKT_MSGID_READ_CHARACTERISTIC, 1, 3, 2, "value"),
      Notification(INDOOR_BIKE_DATA_CHAR_UUID, <<1, 0>>) }

\* how many frames a stream holds at most
MaxStream == 3

InitStream ==
    /\ pc = "start"
    /\ inbound \in SeqsUpTo(StreamPool, MaxStream) \ {<<>>}
    /\ dev_index = 0
    /\ global_speeds = [i \in 0..(NumDevices - 1) |-> 0]
    /\ seq = 0
    /\ recvd = 0
    /\ handled = 0
    /\ written = <<>>
    /\ updates = 0
    /\ IdleCodec
    /\ IdleDecoder
    /\ IdleModule
    /\ IdleTasks

SpecStream == InitStream /\ [][Next]_vars

\* the length of the first k frames of the stream
RECURSIVE Boundary(_, _)
Boundary(frames, k) ==
    IF k = 0 THEN 0 ELSE Len(Head(frames)) + Boundary(Tail(frames), k - 1)

\* C31: on a stream of well-formed frames, requests, responses and
\* notifications in any order and cut into any chunks, the read loop
\* handles the frames in stream order and each at most once: the k-th
\* successful parse is that of the k-th frame of the stream, and after it,
\* as at every other moment, the buffer is what has been received from the
\* end of the k-th frame on, so it starts at a frame boundary.
C31_StreamOrder ==
    (pc \in {"reading", "closed"} /\ \A k \in 1..Len(inbound) : WellFormed(inbound[k])) =>
        /\ handled <= Len(inbound)
        /\ Boundary(inbound, handled) <= recvd
        /\ buf = SubSeq(Stream, Boundary(inbound, handled) + 1, recvd)
        /\ result > 0 =>
              /\ handled >= 1
              /\ result = Len(inbound[handled])
              /\ pkt.Identifier = FrameId(inbound[handled])
              /\ pkt.SequenceNumber = FrameSeq(inbound[handled])
              /\ pkt.ResponseCode = FrameResp(inbound[handled])

\* a notification, a request and a response have been handled in that
\* order, the last one from a buffer that held more than the frame
C31_Witness ==
    /\ pc = "reading"
    /\ Len(inbound) = 3
    /\ FrameId(inbound[1]) = DPKT_MSGID_UNSOLICITED_CHARACTERISTIC_NOTIFICATION
    /\ FrameId(inbound[2]) = DPKT_MSGID_DISCOVER_SERVICES
    /\ FrameId(inbound[3]) = DPKT_MSGID_ENABLE_CHARACTERISTIC_NOTIFICATIONS
    /\ handled = 2
    /\ result > 0
    /\ pkt.isRequest
    /\ buf # <<>>

-----------------------------------------------------------------------------
(* SpecTotal: parse applied once to every prefix of every frame, from the  *)
(* empty buffer to the frame followed by the first bytes of the next one.  *)

TotalInputs ==
    UNION {Prefixes(Wire(id, 5, rc, len, "groups") \o <<1, 6>>) :
              id \in IdSet, rc \in RespSet, len \in LenSet}

InitTotal ==
    /\ pc = "wire"
    /\ buf \in TotalInputs
    /\ last \in LastSet
    /\ pkt = NewPacket
    /\ pre = pkt
    /\ sent = NewPacket
    /\ result = 0
    /\ IdleLoop
    /\ IdleDecoder
    /\ IdleModule
    /\ IdleTasks

SpecTotal == InitTotal /\ [][NextParse]_vars

\* how far into buf parse reads: one more than the largest index it
\* evaluates, a slice counting by its upper bound.  An index beyond the end
\* of buf, or block[DPKT_POS_SH8] on a block the end of buf cut short,
\* raises IndexError.
ReadExtent(b) ==
    IF Len(b) < DPKT_MESSAGE_HEADER_LENGTH THEN 0
    ELSE LET id == At(b, 1)
             n == At(b, 4) * 256 + At(b, 5)
             total_length == DPKT_MESSAGE_HEADER_LENGTH + n
             offset == DPKT_MESSAGE_HEADER_LENGTH
         IN  IF Len(b) < total_length \/ At(b, 3) # DPKT_RESPCODE_SUCCESS_REQUEST
             THEN DPKT_MESSAGE_HEADER_LENGTH
             ELSE CASE id = DPKT_MSGID_DISCOVER_SERVICES ->
                         IF n # 0 /\ n % 16 = 0 THEN offset + 16 * (n \div 16)
                         ELSE DPKT_MESSAGE_HEADER_LENGTH
                    [] id = DPKT_MSGID_DISCOVER_CHARACTERISTICS ->
                         IF n < 16 THEN DPKT_MESSAGE_HEADER_LENGTH
                         ELSE IF n # 16 /\ (n - 16) % 17 = 0
                         THEN offset + 16 + 17 * ((n - 16) \div 17)
                         ELSE offset + 16
                    [] id = DPKT_MSGID_READ_CHARACTERISTIC ->
                         IF n < 16 THEN DPKT_MESSAGE_HEADER_LENGTH
                         ELSE offset + 16
                    [] id = DPKT_MSGID_WRITE_CHARACTERISTIC ->
                         IF n > 16 THEN total_length ELSE DPKT_MESSAGE_HEADER_LENGTH
                    [] id = DPKT_MSGID_ENABLE_CHARACTERISTIC_NOTIFICATIONS ->
                         IF n = 16 THEN offset + 16
                         ELSE IF n = 17 THEN offset + 17
                         ELSE DPKT_MESSAGE_HEADER_LENGTH
                    [] id = DPKT_MSGID_UNSOLICITED_CHARACTERISTIC_NOTIFICATION ->
                         IF n > 16 THEN total_length ELSE DPKT_MESSAGE_HEADER_LENGTH
                    [] OTHER -> DPKT_MESSAGE_HEADER_LENGTH

\* C32: parse is total: for every buffer and every lastSequenceNumber it
\* returns (nothing it reads lies past the end of the buffer, so no index
\* raises), and what it returns is exactly one of NeedMoreData (-3), when
\* the buffer is shorter than the header or than the declared frame, a
\* negative parse-error code other than -3, or a positive consumed length.
C32_ParseIsTotal ==
    Parsed =>
        /\ ReadExtent(buf) <= Len(buf)
        /\ IF Len(buf) < 6 \/ Len(buf) < 6 + FrameLen(buf)
           THEN result = -3
           ELSE \/ result > 0
                \/ result < 0 /\ result # -3

\* a buffer shorter than the header has been answered with NeedMoreData
C32_Witness == Parsed /\ buf # <<>> /\ Len(buf) < 6 /\ result = -3

\* a frame followed by two more bytes has been consumed, and another rejected
C32_WitnessConsumed ==
    Parsed /\ result > 0 /\ Len(buf) = result + 2 /\ ReadExtent(buf) = result
C32_WitnessRejected == Parsed /\ result < -3 /\ Len(buf) > 6 + FrameLen(buf)

-----------------------------------------------------------------------------
(* Claims about what a successful parse consumes, checked under Spec *)

\* the buffer a pass of the read loop hands to parse: buf and the chunk read
Handed == buf \o SubSeq(Stream, recvd + 1, recvd')

\* C33: every successful parse returns a consumed length n equal to 6 plus
\* the declared length, with 6 <= n <= len(buffer); so a successful parse
\* in the read loop leaves a strictly shorter buffer, which is the handed
\* buffer without its first n bytes: nothing beyond the frame is removed.
C33_ConsumedLength ==
    [][(pc = "reading" /\ recvd' > recvd /\ result' > 0) =>
          /\ result' = 6 + FrameLen(Handed)
          /\ 6 <= result'
          /\ result' <= Len(Handed)
          /\ Len(buf') < Len(Handed)
          /\ buf' = SubSeq(Handed, result' + 1, Len(Handed))]_vars

\* the first of two frames has been parsed from a buffer that also held
\* bytes of the second, and these are still in the buffer
C33_Witness ==
    /\ pc = "reading"
    /\ Len(inbound) = 2
    /\ handled = 1
    /\ result = Len(inbound[1])
    /\ buf # <<>>
    /\ buf = SubSeq(Stream, result + 1, recvd)

-----------------------------------------------------------------------------
(* Claims about the requests the clients emit *)

\* the client has written an EnableNotifications request
EnableRequestWritten ==
    /\ written # <<>>
    /\ FrameId(written[Len(written)]) = DPKT_MSGID_ENABLE_CHARACTERISTIC_NOTIFICATIONS

\* C34: every EnableNotifications request the clients emit has the request
\* shape the parser defines for that identifier: a declared length of 17,
\* the 16-byte UUID block followed by exactly one enable/disable flag byte,
\* so that the menu's enable and disable commands produce different frames.
C34_EnableRequestShape ==
    (pc = "client" /\ EnableRequestWritten) =>
        /\ FrameLen(written[1]) = 17
        /\ Len(written[1]) = 6 + 17
        /\ encode(Request(5, 1), seq).out # encode(Request(6, 1), seq).out

\* what does hold, in the interactive client and in handle_device of
\* tcp-vjoy.py: the request is the header and the UUID block, with a
\* declared length of 16 and no flag byte
EnableRequestHasNoFlagByte ==
    (pc \in {"client", "reading", "closed"} /\ EnableRequestWritten) =>
        /\ FrameLen(written[Len(written)]) = 16
        /\ Len(written[Len(written)]) = 6 + 16

\* the interactive client has written an EnableNotifications request
EnableRequestWrittenByClient == pc = "client" /\ EnableRequestWritten

-----------------------------------------------------------------------------
(* Claims about what handle_device does with a parsed frame, under Spec *)

\* the frame at the front of the handed buffer has been parsed and is an
\* UnsolicitedNotification of the Indoor Bike Data characteristic
BikeDataParsed ==
    /\ result' > 0
    /\ FrameId(Handed) = DPKT_MSGID_UNSOLICITED_CHARACTERISTIC_NOTIFICATION
    /\ FrameResp(Handed) = 0
    /\ FrameCode(Handed, 6) = 10962

\* C35: the telemetry decoder runs only for a parsed UnsolicitedNotification
\* whose uuid is the Indoor Bike Data characteristic (0x2AD2); a frame with
\* any other identifier or uuid, or a notification whose record has no
\* speed, leaves every entry of global_speeds unchanged and triggers no
\* gamepad update; the handler of device i only ever writes global_speeds[i].
C35_DecoderDispatch ==
    [][(pc = "reading" /\ recvd' > recvd) =>
          /\ ~BikeDataParsed => decoded' \in {None, decoded}
          /\ (~BikeDataParsed \/ decoded' = None \/ "speed" \notin DOMAIN decoded') =>
                /\ global_speeds' = global_speeds
                /\ updates' = updates
          /\ \A j \in DOMAIN global_speeds :
                j # dev_index => global_speeds'[j] = global_speeds[j]]_vars

\* the handler of the last device has stored a speed and then handled a
\* notification of another characteristic, which changed nothing
C35_Witness ==
    /\ pc = "reading"
    /\ dev_index = NumDevices - 1
    /\ Len(inbound) = 2
    /\ handled = 2
    /\ FrameId(inbound[2]) = DPKT_MSGID_UNSOLICITED_CHARACTERISTIC_NOTIFICATION
    /\ FrameCode(inbound[2], 6) # 10962
    /\ decoded = None
    /\ updates = 1
    /\ global_speeds[dev_index] > 0

-----------------------------------------------------------------------------
(* SpecReport: one pass of read_loop of tcp-dircon.py on a whole            *)
(* DiscoverCharacteristics response: the frame is parsed, processed_data   *)
(* is the consumed frame and the characteristics reported are those        *)
(* services.parse_discovered_characteristics finds in it.                  *)

\* how many 17-byte groups a response holds at most
MaxGroups == 3

\* for each group the UUID code and the property byte
GroupChoices == {<<10962, 20>>, <<10969, 10>>, <<10956, 1>>}

RECURSIVE GroupBytes(_)
GroupBytes(gs) ==
    IF gs = <<>> THEN <<>>
    ELSE UuidBlock(Head(gs)[1]) \o <<Head(gs)[2]>> \o GroupBytes(Tail(gs))

CharacteristicsResponses ==
    { Header(DPKT_MSGID_DISCOVER_CHARACTERISTICS, 1, 0, 16 + 17 * Len(gs))
          \o UuidBlock(SERVICES_fitnessMachine) \o GroupBytes(gs) :
      gs \in SeqsUpTo(GroupChoices, MaxGroups) }

\* services.parse_discovered_characteristics: entries of 21 bytes from
\* offset 6 on: (uuid, properties, value_handle) of each; the name looked
\* up from the uuid is left out
RECURSIVE parse_discovered_characteristics(_, _)
parse_discovered_characteristics(d, i) ==
    IF i >= Len(d) \/ i + 21 > Len(d) THEN <<>>
    ELSE LET entry == Slice(d, i, i + 21)
         IN  <<[uuid |-> Slice(entry, 5, 21),
                properties |-> At(entry, 2),
                value_handle |-> At(entry, 3) + 256 * At(entry, 4)]>>
                \o parse_discovered_characteristics(d, i + 21)

InitReport ==
    /\ pc = "received"
    /\ inbound \in {<<w>> : w \in CharacteristicsResponses}
    /\ seq \in {1, 2}
    /\ tasks = [read_buffer |-> <<>>, processed_data |-> <<>>,
                characteristics |-> <<>>]
    /\ written = <<>>
    /\ recvd = 0
    /\ handled = 0
    /\ dev_index = 0
    /\ global_speeds = [i \in 0..3 |-> 0]
    /\ updates = 0
    /\ IdleCodec
    /\ IdleDecoder
    /\ IdleModule

\* read_buffer += data; result = response_pkt.parse(read_buffer, seq - 1);
\* processed_data = read_buffer[:result]; for a DiscoverCharacteristics
\* frame: characteristics = parse_discovered_characteristics(processed_data)
ReportRead ==
    /\ pc = "received"
    /\ LET b == tasks.read_buffer \o Head(inbound)
           r == parse(NewPacket, b, seq - 1)
           frame == Slice(b, 0, r.ret)
       IN  /\ buf' = b
           /\ last' = seq - 1
           /\ pre' = NewPacket
           /\ pkt' = r.obj
           /\ result' = r.ret
           /\ tasks' =
                IF r.ret = DPKT_PARSE_WAIT
                THEN [tasks EXCEPT !.read_buffer = b]
                ELSE IF r.ret < 0
                THEN [tasks EXCEPT !.read_buffer = <<>>]
                ELSE [tasks EXCEPT
                        !.processed_data = frame,
                        !.read_buffer = SliceFrom(b, r.ret),
                        !.characteristics =
                            IF r.obj.Identifier = DPKT_MSGID_DISCOVER_CHARACTERISTICS
                            THEN parse_discovered_characteristics(frame, 6)
                            ELSE @]
    /\ pc' = "reported"
    /\ UNCHANGED <<sent, seq, inbound, recvd, handled, written, dev_index,
                   global_speeds, updates>>
    /\ UNCHANGED decoderVars
    /\ UNCHANGED moduleVars

NextReport == ReportRead

SpecReport == InitReport /\ [][NextReport]_vars

\* the bytes of the k-th 17-byte group of the frame b (k from 1)
Group(b, k) == SubSeq(b, 22 + 17 * (k - 1) + 1, 22 + 17 * k)

\* a successful DiscoverCharacteristics response with groups has been reported
ResponseReported ==
    /\ pc = "reported"
    /\ result > 0
    /\ FrameId(buf) = DPKT_MSGID_DISCOVER_CHARACTERISTICS
    /\ FrameResp(buf) = 0
    /\ FrameLen(buf) > 16

\* C36: for a successful DiscoverCharacteristics response the list of
\* characteristics the interactive client reports has one entry per
\* 17-byte group of the frame, with the UUID and the property byte that
\* parse extracts for that group.
C36_ReportMatchesParse ==
    ResponseReported =>
        LET n == (FrameLen(buf) - 16) \div 17
        IN  /\ Len(tasks.characteristics) = n
            /\ Len(pkt.uuids) = n
            /\ \A k \in 1..n :
                  /\ tasks.characteristics[k].uuid = SubSeq(Group(buf, k), 1, 16)
                  /\ Contract(tasks.characteristics[k].uuid) = pkt.uuids[k]
                  /\ tasks.characteristics[k].properties = Group(buf, k)[17]
                  /\ tasks.characteristics[k].properties = pkt.additional_data[k]

\* what does hold: the report has one entry per whole 21 bytes after the
\* header, and entry k takes its property byte from the third byte and its
\* UUID from the last 16 bytes of the k-th run of 21 bytes
ReportReadsEntriesOf21 ==
    ResponseReported =>
        /\ Len(tasks.characteristics) = FrameLen(buf) \div 21
        /\ \A k \in 1..Len(tasks.characteristics) :
              /\ tasks.characteristics[k].properties = buf[6 + 21 * (k - 1) + 3]
              /\ tasks.characteristics[k].uuid =
                    SubSeq(buf, 6 + 21 * (k - 1) + 6, 6 + 21 * k)

\* a response with three groups has been reported
ThreeGroupsReported == ResponseReported /\ Len(pkt.uuids) = 3

-----------------------------------------------------------------------------
(* SpecBle: the Dircon decoder and the live-BLE decoder on the same payload *)

\* a live-BLE table whose HeartRate presence bit is bit 7 instead of bit 9
FIELD_DEFS_ble_Bit7 ==
    << Field("Flags", 2, "Uint16", 100, 0, 0, "Flags"),
       Field("InstantaneousSpeed", 2, "Uint16", 1, 0, 0, "speed"),
       Field("AverageSpeed", 2, "Uint16", 1, 1, 1, "AverageSpeed"),
       Field("InstantaneousCadence", 2, "Uint16", 50, 2, 1, "cadence"),
       Field("AverageCadence", 2, "Uint16", 50, 3, 1, "AverageCadence"),
       Field("TotalDistance", 3, "Uint24", 100, 4, 1, "distance"),
       Field("ResistanceLevel", 2, "Uint16", 100, 5, 1, "ResistanceLevel"),
       Field("InstantaneousPower", 2, "Uint16", 100, 6, 1, "power"),
       Field("AveragePower", 2, "Uint16", 100, 7, 1, "AveragePower"),
       Field("TotalEnergy", 2, "Int16", 100, 8, 1, "TotalEnergy"),
       Field("EnergyPerHour", 2, "Int16", 100, 8, 1, "EnergyPerHour"),
       Field("EnergyPerMinute", 1, "Uint8", 100, 8, 1, "EnergyPerMinute"),
       Field("HeartRate", 1, "Uint8", 100, 7, 1, "heartRate"),
       Field("MetabolicEquivalent", 1, "Uint8", 100, 10, 1, "MetabolicEquivalent"),
       Field("ElapsedTime", 2, "Uint16", 100, 11, 1, "ElapsedTime"),
       Field("RemainingTime", 2, "Uint16", 100, 12, 1, "RemainingTime") >>

\* FIELD_DEFS of ble-vjoy-reconnect.py (ble-vjoy.py holds the same text):
\* expanded_energy_present (bit 8) guards TotalEnergy, EnergyPerHour and
\* EnergyPerMinute, heart_rate_present is bit 9, metabolic_equivalent_present
\* bit 10, elapsed_time_present bit 11, remaining_time_present bit 12
FIELD_DEFS_ble ==
    << Field("Flags", 2, "Uint16", 100, 0, 0, "Flags"),
       Field("InstantaneousSpeed", 2, "Uint16", 1, 0, 0, "speed"),
       Field("AverageSpeed", 2, "Uint16", 1, 1, 1, "AverageSpeed"),
       Field("InstantaneousCadence", 2, "Uint16", 50, 2, 1, "cadence"),
       Field("AverageCadence", 2, "Uint16", 50, 3, 1, "AverageCadence"),
       Field("TotalDistance", 3, "Uint24", 100, 4, 1, "distance"),
       Field("ResistanceLevel", 2, "Uint16", 100, 5, 1, "ResistanceLevel"),
       Field("InstantaneousPower", 2, "Uint16", 100, 6, 1, "power"),
       Field("AveragePower", 2, "Uint16", 100, 7, 1, "AveragePower"),
       Field("TotalEnergy", 2, "Int16", 100, 8, 1, "TotalEnergy"),
       Field("EnergyPerHour", 2, "Int16", 100, 8, 1, "EnergyPerHour"),
       Field("EnergyPerMinute", 1, "Uint8", 100, 8, 1, "EnergyPerMinute"),
       Field("HeartRate", 1, "Uint8", 100, 9, 1, "heartRate"),
       Field("MetabolicEquivalent", 1, "Uint8", 100, 10, 1, "MetabolicEquivalent"),
       Field("ElapsedTime", 2, "Uint16", 100, 11, 1, "ElapsedTime"),
       Field("RemainingTime", 2, "Uint16", 100, 12, 1, "RemainingTime") >>

\* the loop over FIELD_DEFS[1:] of the live-BLE decoder, from table index i on
RECURSIVE decode_fields_ble(_, _, _, _, _)
decode_fields_ble(d, flags, i, offset, dict) ==
    IF i > Len(FIELD_DEFS_ble) THEN dict
    ELSE LET field == FIELD_DEFS_ble[i]
         IN  IF offset + field.size > Len(d) THEN dict
             ELSE decode_fields_ble(d, flags, i + 1, offset + field.size,
                     IF Present(field, flags)
                     THEN Put(dict, field.key,
                              Unpack(field.type, d, offset) * field.res100)
                     ELSE dict)

\* decode_indoor_bike_data of ble-vjoy-reconnect.py and ble-vjoy.py
decode_indoor_bike_data_ble(d) ==
    IF Len(d) < 2 THEN None
    ELSE LET flags == Unpack("Uint16", d, 0)
         IN  decode_fields_ble(d, flags, 2, 2, [k \in {"Flags"} |-> flags])

\* bit 0 clear and bits 1..7 set: the eight fields below bit 8 on the wire
LowFlags == FlagsOfBits(1..7)

\* the same with TotalEnergy, HeartRate, MetabolicEquivalent and ElapsedTime
HighFlags == FlagsOfBits((1..8) \cup {11, 12, 13})

\* eleven bytes after the fields the Flags announce: room for every field of
\* the table from TotalEnergy on
Trailing == <<201, 202, 203, 204, 205, 206, 207, 208, 209, 210, 211>>

BleInputs ==
    DecodeInputs \cup
    UNION {Prefixes(LaidOut(flags, seed) \o Trailing) :
              flags \in {LowFlags, LowFlags + Pow2(15), HighFlags}, seed \in {1, 130}}

InitBle ==
    /\ pc = "payload"
    /\ data \in BleInputs
    /\ decoded = None
    /\ tasks = [ble |-> None]
    /\ IdleCodec
    /\ IdleLoop
    /\ IdleModule

\* one payload handed to both decoders
BleDecodeCall ==
    /\ pc = "payload"
    /\ decoded' = decode_indoor_bike_data(data)
    /\ tasks' = [ble |-> decode_indoor_bike_data_ble(data)]
    /\ pc' = "decoded"
    /\ UNCHANGED data
    /\ UNCHANGED codecVars
    /\ UNCHANGED loopVars
    /\ UNCHANGED moduleVars

NextBle == BleDecodeCall

SpecBle == InitBle /\ [][NextBle]_vars

\* bits 8 through 14 of the payload's Flags are all clear
Bits8To14Clear(d) ==
    /\ Len(d) >= 2
    /\ ((d[1] + 256 * d[2]) \div 256) % 128 = 0

\* two table entries agree in everything but the presence bit
SameButPresence(f, g) ==
    /\ f.name = g.name
    /\ f.size = g.size
    /\ f.type = g.type
    /\ f.res100 = g.res100
    /\ f.key = g.key
    /\ f.want = g.want

\* C37: the Dircon decoder and the live-BLE decoder return the same record for
\* every payload whose Flags have bits 8 through 14 all clear, and the two
\* field tables differ only in the presence bits of the fields from
\* EnergyPerHour (table entry 11) onward.
C37_DecodersAgreeBelowBit8 ==
    /\ (pc = "decoded" /\ Bits8To14Clear(data)) => tasks.ble = decoded
    /\ Len(FIELD_DEFS_ble) = Len(FIELD_DEFS)
    /\ \A i \in 1..Len(FIELD_DEFS) :
          /\ SameButPresence(FIELD_DEFS[i], FIELD_DEFS_ble[i])
          /\ i < 11 => FIELD_DEFS_ble[i] = FIELD_DEFS[i]

\* both decoders have returned a record with the eight fields below bit 8
C37_Witness ==
    /\ pc = "decoded"
    /\ Bits8To14Clear(data)
    /\ data[1] + 256 * data[2] = LowFlags
    /\ tasks.ble = decoded
    /\ {"speed", "AverageSpeed", "cadence", "AverageCadence", "distance",
        "ResistanceLevel", "power", "AveragePower"} \subseteq DOMAIN decoded
    /\ decoded.power = 100 * (data[16] + 256 * data[17])

\* the tables do diverge: with bit 8 set the two records differ
C37_WitnessDiverge ==
    /\ pc = "decoded"
    /\ ~Bits8To14Clear(data)
    /\ tasks.ble # decoded

-----------------------------------------------------------------------------
(* SpecSpeeds: ble-vjoy-reconnect.py with its notifications.  Each task    *)
(* runs handle_device_loop as in SpecReconnect; while a session is         *)
(* subscribing or connected the device's notifications reach               *)
(* device_notification_handler on the event loop.  tasks[i].heard is the   *)
(* sequence of payloads device i has delivered so far, over all sessions.  *)

\* how many notifications a device delivers at most
MaxHeard == 2

\* the axes of the first and the last entry of DEVICE_AXIS_MAPPING
Axes == {0, 3}

\* Indoor Bike Data payloads: speeds 12.34 and 100.00 kph, Flags announcing
\* no speed, and a payload shorter than the Flags
Payloads == { <<0, 0, 210, 4>>, <<0, 0, 16, 39>>, <<1, 0>>, <<0>> }

InitSpeeds ==
    /\ pc = "ble"
    /\ tasks = [i \in Axes |-> [pc |-> "connecting", cause |-> "none", heard |-> <<>>]]
    /\ global_speeds = [i \in 0..3 |-> 0]
    /\ seq = 0
    /\ inbound = <<>>
    /\ recvd = 0
    /\ handled = 0
    /\ written = <<>>
    /\ dev_index = 0
    /\ updates = 0
    /\ IdleCodec
    /\ IdleDecoder
    /\ IdleModule

\* global_speeds after the handler of axis_index has decoded record: a record
\* without a speed resets the entry
StoreSpeedOrReset(speeds, axis_index, record) ==
    IF "speed" \in DOMAIN record
    THEN [speeds EXCEPT ![axis_index] = record["speed"]]
    ELSE [speeds EXCEPT ![axis_index] = 0]

\* if "speed" in decoded: global_speeds[axis_index] = speed
StoreSpeed(speeds, axis_index, record) ==
    IF "speed" \in DOMAIN record
    THEN [speeds EXCEPT ![axis_index] = record["speed"]]
    ELSE speeds

\* device_notification_handler(sender, d, axis_index), called for a
\* notification of the session task i holds
device_notification_handler(i, d) ==
    /\ tasks[i].pc \in {"subscribing", "connected"}
    /\ Len(tasks[i].heard) < MaxHeard
    /\ LET record == decode_indoor_bike_data_ble(d)
       IN  /\ data' = d
           /\ decoded' = record
           /\ dev_index' = i
           /\ global_speeds' = IF record = None THEN global_speeds
                               ELSE StoreSpeed(global_speeds, i, record)
           /\ updates' = IF record # None /\ "speed" \in DOMAIN record
                         THEN updates + 1 ELSE updates
    /\ tasks' = [tasks EXCEPT ![i].heard = Append(@, d)]
    /\ UNCHANGED <<pc, seq, inbound, recvd, handled, written>>
    /\ UNCHANGED codecVars
    /\ UNCHANGED moduleVars

NextSpeeds ==
    \E i \in Axes :
        \/ LoopNext(i)
        \/ \E d \in Payloads : device_notification_handler(i, d)

SpecSpeeds == InitSpeeds /\ [][NextSpeeds]_vars

\* the payload carries an InstantaneousSpeed: bit 0 of the Flags is clear
\* and the two bytes after the Flags are there
CarriesSpeed(d) == Len(d) >= 4 /\ d[1] % 2 = 0

\* the speed, in hundredths of kph, of the last payload of h that carries
\* one, 0 if none does
RECURSIVE LastSpeed(_)
LastSpeed(h) ==
    IF h = <<>> THEN 0
    ELSE LET d == h[Len(h)]
         IN  IF CarriesSpeed(d) THEN d[3] + 256 * d[4]
             ELSE LastSpeed(SubSeq(h, 1, Len(h) - 1))

\* C38: after any sequence of notifications, connection ends and reconnects,
\* global_speeds[i] is the speed of the most recent record from device i that
\* contained a speed, or 0.0 if there was none; a connection ending never
\* resets the entry, and the entries of axes without a device stay 0.0.
C38_SpeedIsLastHeard ==
    /\ \A i \in Axes : global_speeds[i] = LastSpeed(tasks[i].heard)
    /\ \A j \in (0..3) \ Axes : global_speeds[j] = 0

\* the first device sent 100.00 then 12.34 kph and its session ended in a
\* disconnect; the last device sent 100.00 kph, then a short payload, lost
\* its session and is connecting again: both entries keep the last speed
C38_Witness ==
    /\ pc = "ble"
    /\ tasks[0].heard = << <<0, 0, 16, 39>>, <<0, 0, 210, 4>> >>
    /\ tasks[0].pc = "sleeping" /\ tasks[0].cause = "disconnected"
    /\ global_speeds[0] = 1234
    /\ tasks[3].heard = << <<0, 0, 16, 39>>, <<0>> >>
    /\ tasks[3].pc = "connecting"
    /\ global_speeds[3] = 10000

\* the same for handle_device of tcp-vjoy.py: the pass of the read loop that
\* ends the connection leaves every entry of global_speeds as it was
SpeedsKeptAtClose ==
    [][pc' \in {"closed", "failed"} => global_speeds' = global_speeds]_vars

\* a connection of tcp-vjoy.py has closed after a speed was stored
SpeedKeptAfterClose ==
    /\ pc = "closed"
    /\ global_speeds[dev_index] = 1234

-----------------------------------------------------------------------------
(* SpecStick: map_speed_to_stick of the three client scripts, applied once *)
(* to each speed the decoder can produce.  Speeds are in hundredths of kph *)
(* as everywhere in this module: the decoder's raw Uint16 value r stands   *)
(* for the float r * 0.01, and int((min(speed, 80.0) / 80.0) * 32767) is   *)
(* the floor of min(r, 8000) * 32767 / 8000 for every r in 0..65535.       *)

\* MAX_SPEED_KPH = 80.0, in hundredths
MAX_SPEED_KPH == 8000

Scripts == {"ble-vjoy.py", "ble-vjoy-reconnect.py", "tcp-vjoy.py"}

\* every value of InstantaneousSpeed: 0.00 to 655.35 kph
Speeds == 0..65535

MinOf(a, b) == IF a < b THEN a ELSE b

\* ble-vjoy.py and ble-vjoy-reconnect.py:
\* int((min(speed, MAX_SPEED_KPH) / MAX_SPEED_KPH) * 32767)
map_speed_to_stick_ble(speed) ==
    (MinOf(speed, MAX_SPEED_KPH) * 32767) \div MAX_SPEED_KPH

\* tcp-vjoy.py: int((min(speed, MAX_SPEED_KPH) / MAX_SPEED_KPH) * 32767) * 2
map_speed_to_stick_tcp(speed) ==
    ((MinOf(speed, MAX_SPEED_KPH) * 32767) \div MAX_SPEED_KPH) * 2

map_speed_to_stick(script, speed) ==
    IF script = "tcp-vjoy.py" THEN map_speed_to_stick_tcp(speed)
    ELSE map_speed_to_stick_ble(speed)

InitStick ==
    /\ pc = "speed"
    /\ \E script \in Scripts, speed \in Speeds :
          tasks = [script |-> script, speed |-> speed, stick |-> 0]
    /\ IdleCodec
    /\ IdleLoop
    /\ IdleDecoder
    /\ IdleModule

\* update_gamepad calls map_speed_to_stick on an entry of global_speeds
MapCall ==
    /\ pc = "speed"
    /\ tasks' = [tasks EXCEPT !.stick = map_speed_to_stick(tasks.script, tasks.speed)]
    /\ pc' = "mapped"
    /\ UNCHANGED codecVars
    /\ UNCHANGED loopVars
    /\ UNCHANGED decoderVars
    /\ UNCHANGED moduleVars

NextStick == MapCall

SpecStick == InitStick /\ [][NextStick]_vars

\* C39: in every client script map_speed_to_stick maps every decodable speed
\* (0 to 655.35 kph) to a joystick value in the range 0 to 32767, saturating
\* at MAX_SPEED_KPH = 80 kph: from 80 kph on the value is 32767.
C39_StickRange ==
    pc = "mapped" =>
        /\ tasks.stick \in 0..32767
        /\ tasks.speed >= 8000 => tasks.stick = 32767

\* the two live-BLE scripts do keep to the range and saturate at 32767
StickRangeBle ==
    (pc = "mapped" /\ tasks.script # "tcp-vjoy.py") =>
        /\ tasks.stick \in 0..32767
        /\ tasks.speed >= 8000 => tasks.stick = 32767
        /\ tasks.speed < 8000 => tasks.stick < 32767

\* tcp-vjoy.py doubles the value: even values up to 65534, above 32767 for
\* every speed over 40.00 kph
StickRangeTcp ==
    (pc = "mapped" /\ tasks.script = "tcp-vjoy.py") =>
        /\ tasks.stick \in 0..65534
        /\ tasks.stick % 2 = 0
        /\ tasks.speed >= 8000 => tasks.stick = 65534
        /\ tasks.speed > 4000 <=> tasks.stick > 32767

\* tcp-vjoy.py has mapped 80.00 kph to 65534
StickAt80Tcp ==
    /\ pc = "mapped"
    /\ tasks.script = "tcp-vjoy.py"
    /\ tasks.speed = 8000
    /\ tasks.stick = 65534

=============================================================================
